---- MODULE Spec2Model ----
(***************************************************************************)
(* Model of the weather-to-clothing Lambda (handler, hour locator,         *)
(* computeEffectiveTemp, getTempCategory, categoryIndex,                   *)
(* getClothingRecommendation, analyzeLaterToday, generateAPLData).         *)
(*                                                                         *)
(* Numbers.  JavaScript numbers with a fractional part (19.9 degrees,      *)
(* 30.9 mph, 0.25 in) are held as integers counting hundredths: Num(19,90) *)
(* is 19.9, Num(0,25) is 0.25.  All temperatures, wind speeds, humidities, *)
(* precipitation amounts and UV indexes use this representation; indexes,  *)
(* ranks, hours and counts are plain integers.                             *)
(*                                                                         *)
(* Strings are TLA+ strings; String.prototype.includes, toLowerCase and    *)
(* Array.prototype.join are computed character by character.               *)
(*                                                                         *)
(* Arrays keep the JavaScript 0-based indexes: At(a, i) is a[i].           *)
(***************************************************************************)
EXTENDS Integers, Sequences, FiniteSets, TLC

Num(whole, hundredths) == whole * 100 + hundredths

At(a, i) == a[i + 1]

(***************************************************************************)
(* Configuration table                                                     *)
(***************************************************************************)
THRESHOLDS ==
  [ TEMP_CATEGORY_SWING       |-> 2,
    SIGNIFICANT_PRECIPITATION |-> Num(0, 25),
    MINIMAL_PRECIPITATION     |-> Num(0, 0),
    HIGH_WIND_SPEED           |-> Num(25, 0),
    WIND_FORECAST_HOURS       |-> 8,
    MAX_LATER_STATEMENTS      |-> 2,
    TEMP_THRESHOLDS |->
      [ EXTREME_COLD |-> Num(0, 0),
        VERY_COLD    |-> Num(20, 0),
        COLD         |-> Num(35, 0),
        COOL         |-> Num(50, 0),
        MILD         |-> Num(65, 0),
        WARM         |-> Num(80, 0),
        HOT          |-> Num(90, 0) ],
    WIND_CHILL |->
      [ LIGHT    |-> [threshold |-> Num(5, 0),  adjustment |-> Num(4, 0)],
        MODERATE |-> [threshold |-> Num(11, 0), adjustment |-> Num(8, 0)],
        STRONG   |-> [threshold |-> Num(21, 0), adjustment |-> Num(12, 0)],
        SEVERE   |-> [threshold |-> Num(30, 0), adjustment |-> Num(18, 0)] ],
    UV |-> [ MODERATE |-> Num(3, 0), HIGH |-> Num(6, 0) ] ]

(***************************************************************************)
(* String primitives                                                       *)
(***************************************************************************)
\* String.prototype.includes: pat occurs in s as a contiguous substring,
\* compared character by character (case is significant).
includes(s, pat) ==
  \E i \in 1..(Len(s) - Len(pat) + 1) : SubSeq(s, i, i + Len(pat) - 1) = pat

\* First 1-based position at which pat occurs in s, 0 when it does not.
indexOf(s, pat) ==
  IF includes(s, pat)
    THEN CHOOSE i \in 1..(Len(s) - Len(pat) + 1) :
           /\ SubSeq(s, i, i + Len(pat) - 1) = pat
           /\ \A j \in 1..(i - 1) : SubSeq(s, j, j + Len(pat) - 1) # pat
    ELSE 0

startsWith(s, pat) == Len(pat) <= Len(s) /\ SubSeq(s, 1, Len(pat)) = pat

lowerChar(c) ==
  CASE c = "A" -> "a" [] c = "B" -> "b" [] c = "C" -> "c" [] c = "D" -> "d"
    [] c = "E" -> "e" [] c = "F" -> "f" [] c = "G" -> "g" [] c = "H" -> "h"
    [] c = "I" -> "i" [] c = "J" -> "j" [] c = "K" -> "k" [] c = "L" -> "l"
    [] c = "M" -> "m" [] c = "N" -> "n" [] c = "O" -> "o" [] c = "P" -> "p"
    [] c = "Q" -> "q" [] c = "R" -> "r" [] c = "S" -> "s" [] c = "T" -> "t"
    [] c = "U" -> "u" [] c = "V" -> "v" [] c = "W" -> "w" [] c = "X" -> "x"
    [] c = "Y" -> "y" [] c = "Z" -> "z" [] OTHER -> c

RECURSIVE toLowerCase(_)
toLowerCase(s) ==
  IF Len(s) = 0 THEN ""
  ELSE lowerChar(SubSeq(s, 1, 1)) \o toLowerCase(SubSeq(s, 2, Len(s)))

\* Array.prototype.join for an array of strings.
RECURSIVE join(_, _)
join(arr, sep) ==
  IF Len(arr) = 0 THEN ""
  ELSE IF Len(arr) = 1 THEN arr[1]
  ELSE arr[1] \o sep \o join(Tail(arr), sep)

\* Math.round on a hundredths-valued number: nearest integer, halves up.
MathRound(x) == (x + 50) \div 100

\* Math.abs
MathAbs(n) == IF n < 0 THEN -n ELSE n

(***************************************************************************)
(* Dates.  A Date is the record of the local-time fields its getters       *)
(* return: getFullYear, getMonth, getDate, getHours.                       *)
(***************************************************************************)
Date(y, mo, d, h) == [year |-> y, month |-> mo, date |-> d, hours |-> h]

\* Date <= Date (comparison of the instants)
dateLE(a, b) ==
  \/ a.year < b.year
  \/ a.year = b.year /\ a.month < b.month
  \/ a.year = b.year /\ a.month = b.month /\ a.date < b.date
  \/ a.year = b.year /\ a.month = b.month /\ a.date = b.date
       /\ a.hours <= b.hours

isTimeBetween(currentTime, sunrise, sunset) ==
  IF sunrise = <<>> \/ sunset = <<>> THEN TRUE
  ELSE dateLE(sunrise[1], currentTime) /\ dateLE(currentTime, sunset[1])

getWeatherDescription(code) ==
  CASE code = 0  -> "Clear Sky"
    [] code = 1  -> "Mainly Clear"
    [] code = 2  -> "Partly Cloudy"
    [] code = 3  -> "Overcast"
    [] code = 45 -> "Foggy"
    [] code = 48 -> "Foggy with Rime"
    [] code = 51 -> "Light Drizzle"
    [] code = 53 -> "Moderate Drizzle"
    [] code = 55 -> "Heavy Drizzle"
    [] code = 56 -> "Light Freezing Drizzle"
    [] code = 57 -> "Dense Freezing Drizzle"
    [] code = 61 -> "Light Rain"
    [] code = 63 -> "Moderate Rain"
    [] code = 65 -> "Heavy Rain"
    [] code = 66 -> "Light Freezing Rain"
    [] code = 67 -> "Heavy Freezing Rain"
    [] code = 71 -> "Light Snow"
    [] code = 73 -> "Moderate Snow"
    [] code = 75 -> "Heavy Snow"
    [] code = 77 -> "Snow Grains"
    [] code = 80 -> "Light Rain Showers"
    [] code = 81 -> "Moderate Rain Showers"
    [] code = 82 -> "Violent Rain Showers"
    [] code = 85 -> "Light Snow Showers"
    [] code = 86 -> "Heavy Snow Showers"
    [] code = 95 -> "Thunderstorm"
    [] code = 96 -> "Thunderstorm with Light Hail"
    [] code = 99 -> "Thunderstorm with Heavy Hail"
    [] OTHER     -> "Mixed Conditions"

(***************************************************************************)
(* Effective temperature                                                   *)
(***************************************************************************)
\* Variant of windChillAdjustment: the strong band subtracts the moderate
\* band's adjustment.
windChillAdjustment_strongAsModerate(windMph) ==
  IF windMph >= THRESHOLDS.WIND_CHILL.LIGHT.threshold
       /\ windMph < THRESHOLDS.WIND_CHILL.MODERATE.threshold
    THEN THRESHOLDS.WIND_CHILL.LIGHT.adjustment
  ELSE IF windMph >= THRESHOLDS.WIND_CHILL.MODERATE.threshold
       /\ windMph < THRESHOLDS.WIND_CHILL.STRONG.threshold
    THEN THRESHOLDS.WIND_CHILL.MODERATE.adjustment
  ELSE IF windMph >= THRESHOLDS.WIND_CHILL.STRONG.threshold
       /\ windMph < THRESHOLDS.WIND_CHILL.SEVERE.threshold
    THEN THRESHOLDS.WIND_CHILL.MODERATE.adjustment
  ELSE IF windMph >= THRESHOLDS.WIND_CHILL.SEVERE.threshold
    THEN THRESHOLDS.WIND_CHILL.SEVERE.adjustment
  ELSE 0

\* The wind-chill amount subtracted for a wind speed (0 when no band holds).
windChillAdjustment(windMph) ==
  IF windMph >= THRESHOLDS.WIND_CHILL.LIGHT.threshold
       /\ windMph < THRESHOLDS.WIND_CHILL.MODERATE.threshold
    THEN THRESHOLDS.WIND_CHILL.LIGHT.adjustment
  ELSE IF windMph >= THRESHOLDS.WIND_CHILL.MODERATE.threshold
       /\ windMph < THRESHOLDS.WIND_CHILL.STRONG.threshold
    THEN THRESHOLDS.WIND_CHILL.MODERATE.adjustment
  ELSE IF windMph >= THRESHOLDS.WIND_CHILL.STRONG.threshold
       /\ windMph < THRESHOLDS.WIND_CHILL.SEVERE.threshold
    THEN THRESHOLDS.WIND_CHILL.STRONG.adjustment
  ELSE IF windMph >= THRESHOLDS.WIND_CHILL.SEVERE.threshold
    THEN THRESHOLDS.WIND_CHILL.SEVERE.adjustment
  ELSE 0

\* The humidity amount added to the temperature (may be negative).
humidityAdjustment(tempF, humidity) ==
  IF tempF > Num(70, 0) /\ humidity > Num(70, 0) THEN Num(8, 0)
  ELSE IF tempF < Num(50, 0) /\ humidity < Num(30, 0) THEN -Num(3, 0)
  ELSE 0

\* Variant of computeEffectiveTemp: the humidity adjustment is decided on
\* the wind-adjusted temperature.
computeEffectiveTemp_humidityOnAdjusted(tempF, windMph, humidity) ==
  LET eff == tempF - windChillAdjustment(windMph)
  IN  eff + humidityAdjustment(eff, humidity)

computeEffectiveTemp(tempF, windMph, humidity) ==
  tempF - windChillAdjustment(windMph) + humidityAdjustment(tempF, humidity)

(***************************************************************************)
(* Categorizer                                                             *)
(***************************************************************************)
\* Variant of getTempCategory: the very-cold bound is inclusive (<=).
getTempCategory_inclusive(effTemp) ==
  IF effTemp < THRESHOLDS.TEMP_THRESHOLDS.EXTREME_COLD THEN "extreme cold"
  ELSE IF effTemp <= THRESHOLDS.TEMP_THRESHOLDS.VERY_COLD THEN "very cold"
  ELSE IF effTemp < THRESHOLDS.TEMP_THRESHOLDS.COLD THEN "cold"
  ELSE IF effTemp < THRESHOLDS.TEMP_THRESHOLDS.COOL THEN "cool"
  ELSE IF effTemp < THRESHOLDS.TEMP_THRESHOLDS.MILD THEN "mild"
  ELSE IF effTemp < THRESHOLDS.TEMP_THRESHOLDS.WARM THEN "warm"
  ELSE IF effTemp < THRESHOLDS.TEMP_THRESHOLDS.HOT THEN "hot"
  ELSE "very hot"

getTempCategory(effTemp) ==
  IF effTemp < THRESHOLDS.TEMP_THRESHOLDS.EXTREME_COLD THEN "extreme cold"
  ELSE IF effTemp < THRESHOLDS.TEMP_THRESHOLDS.VERY_COLD THEN "very cold"
  ELSE IF effTemp < THRESHOLDS.TEMP_THRESHOLDS.COLD THEN "cold"
  ELSE IF effTemp < THRESHOLDS.TEMP_THRESHOLDS.COOL THEN "cool"
  ELSE IF effTemp < THRESHOLDS.TEMP_THRESHOLDS.MILD THEN "mild"
  ELSE IF effTemp < THRESHOLDS.TEMP_THRESHOLDS.WARM THEN "warm"
  ELSE IF effTemp < THRESHOLDS.TEMP_THRESHOLDS.HOT THEN "hot"
  ELSE "very hot"

categories ==
  << "extreme cold", "very cold", "cold", "cool",
     "mild", "warm", "hot", "very hot" >>

\* Array.prototype.indexOf: 0-based position of the first equal element, or -1.
categoryIndex(category) ==
  IF \E i \in 1..Len(categories) : categories[i] = category
    THEN (CHOOSE i \in 1..Len(categories) :
            /\ categories[i] = category
            /\ \A j \in 1..(i - 1) : categories[j] # category) - 1
    ELSE -1

(***************************************************************************)
(* Recommendation composer                                                 *)
(***************************************************************************)
\* baseAdviceMap[cat] || "Dress comfortably."
baseAdvice(cat) ==
  CASE cat = "extreme cold" ->
         "Wear heavy layers, insulated boots, and cover exposed skin."
    [] cat = "very cold" ->
         "Thermal base layers, heavy coat, gloves, and a warm hat."
    [] cat = "cold"      -> "Layers plus a warm sweater and winter jacket."
    [] cat = "cool"      -> "Long sleeves and a jacket or hoodie."
    [] cat = "mild"      -> "A light jacket or long-sleeve shirt."
    [] cat = "warm"      -> "Short sleeves or thin layers; maybe sunglasses."
    [] cat = "hot"       -> "Lightweight clothes; stay hydrated."
    [] cat = "very hot"  ->
         "Minimal, breathable clothing and strong sun protection."
    [] OTHER             -> "Dress comfortably."

\* Variant of precipClause: the upper threshold is inclusive.
precipClause_inclusive(precip) ==
  IF precip >= THRESHOLDS.SIGNIFICANT_PRECIPITATION
    THEN " Bring a waterproof layer."
  ELSE IF precip > THRESHOLDS.MINIMAL_PRECIPITATION
    THEN " Consider a light rain jacket."
  ELSE ""

precipClause(precip) ==
  IF precip > THRESHOLDS.SIGNIFICANT_PRECIPITATION
    THEN " Bring a waterproof layer."
  ELSE IF precip > THRESHOLDS.MINIMAL_PRECIPITATION
    THEN " Consider a light rain jacket."
  ELSE ""

\* Variant of conditionClause: the fog test comes first.
conditionClause_fogFirst(weatherDesc) ==
  IF includes(weatherDesc, "Fog")
    THEN " Wear bright clothing for visibility."
  ELSE IF includes(weatherDesc, "Snow")
    THEN " Waterproof boots are recommended."
  ELSE IF includes(weatherDesc, "Thunderstorm")
    THEN " Stay safe and avoid open areas."
  ELSE ""

conditionClause(weatherDesc) ==
  IF includes(weatherDesc, "Snow")
    THEN " Waterproof boots are recommended."
  ELSE IF includes(weatherDesc, "Thunderstorm")
    THEN " Stay safe and avoid open areas."
  ELSE IF includes(weatherDesc, "Fog")
    THEN " Wear bright clothing for visibility."
  ELSE ""

\* Variant of windColdClause: both thresholds are inclusive.
windColdClause_inclusive(windSpeed, effTemp) ==
  IF windSpeed >= Num(10, 0) /\ effTemp <= THRESHOLDS.TEMP_THRESHOLDS.COOL
    THEN " A windproof coat helps."
  ELSE ""

windColdClause(windSpeed, effTemp) ==
  IF windSpeed > Num(10, 0) /\ effTemp < THRESHOLDS.TEMP_THRESHOLDS.COOL
    THEN " A windproof coat helps."
  ELSE ""

humidWarmClause(humidity, effTemp) ==
  IF humidity > Num(70, 0) /\ effTemp > Num(70, 0)
    THEN " Moisture-wicking fabric is good in humidity."
  ELSE ""

\* Variant of uvClause: the daytime flag is not consulted.
uvClause_ignoresDaytime(uvIndex, isDaytime) ==
  IF uvIndex >= THRESHOLDS.UV.HIGH
    THEN " UV is high, wear sunscreen and a hat."
  ELSE IF uvIndex >= THRESHOLDS.UV.MODERATE
    THEN " Moderate UV, consider sun protection."
  ELSE ""

uvClause(uvIndex, isDaytime) ==
  IF isDaytime
    THEN IF uvIndex >= THRESHOLDS.UV.HIGH
           THEN " UV is high, wear sunscreen and a hat."
         ELSE IF uvIndex >= THRESHOLDS.UV.MODERATE
           THEN " Moderate UV, consider sun protection."
         ELSE ""
    ELSE ""

\* Variant of getClothingRecommendation: the UV clause is appended before
\* the wind+cold clause.
getClothingRecommendation_uvEarly(effTemp, precip, windSpeed, humidity, uvIndex, weatherDesc, isDaytime) ==
  LET cat    == getTempCategory(effTemp)
      advice == baseAdvice(cat)
                  \o precipClause(precip)
                  \o conditionClause(weatherDesc)
                  \o uvClause(uvIndex, isDaytime)
                  \o windColdClause(windSpeed, effTemp)
                  \o humidWarmClause(humidity, effTemp)
  IN  "It feels " \o cat \o ". " \o advice

getClothingRecommendation(effTemp, precip, windSpeed, humidity, uvIndex, weatherDesc, isDaytime) ==
  LET cat    == getTempCategory(effTemp)
      advice == baseAdvice(cat)
                  \o precipClause(precip)
                  \o conditionClause(weatherDesc)
                  \o windColdClause(windSpeed, effTemp)
                  \o humidWarmClause(humidity, effTemp)
                  \o uvClause(uvIndex, isDaytime)
  IN  "It feels " \o cat \o ". " \o advice

shortAdviceForCategory(cat) ==
  CASE cat = "extreme cold" -> "Bundle up with multiple insulating layers."
    [] cat = "very cold"    -> "Heavy coat, thermal layers, winter gear."
    [] cat = "cold"         -> "Wear a warm jacket and layers."
    [] cat = "cool"         -> "A light jacket or hoodie should help."
    [] cat = "mild"         -> "Light layers are likely enough."
    [] cat = "warm"         -> "Short sleeves or light clothing."
    [] cat = "hot"          -> "Thin, breathable clothes, stay hydrated."
    [] cat = "very hot"     -> "Minimal clothing and strong sun protection."
    [] OTHER                -> ""

formatHour(dateObj) ==
  LET hour == dateObj.hours
      ampm == IF hour >= 12 THEN "PM" ELSE "AM"
      h12  == IF hour = 0 THEN 12 ELSE IF hour > 12 THEN hour - 12 ELSE hour
  IN  ToString(h12) \o " " \o ampm

(***************************************************************************)
(* Visual payload builder                                                  *)
(***************************************************************************)
\* Variant of backgroundType: the night test comes first.
backgroundType_nightFirst(weatherDesc, isDaytime) ==
  IF ~isDaytime THEN "night"
  ELSE IF includes(weatherDesc, "Rain") \/ includes(weatherDesc, "Drizzle")
    THEN "rainy"
  ELSE IF includes(weatherDesc, "Snow") THEN "snowy"
  ELSE IF includes(weatherDesc, "Cloud") \/ includes(weatherDesc, "Overcast")
    THEN "overcast"
  ELSE IF includes(weatherDesc, "Fog") THEN "foggy"
  ELSE IF includes(weatherDesc, "Thunder") THEN "stormy"
  ELSE "sunny"

\* Variant of backgroundType: the thunder test comes first.
backgroundType_thunderFirst(weatherDesc, isDaytime) ==
  IF includes(weatherDesc, "Thunder") THEN "stormy"
  ELSE IF includes(weatherDesc, "Rain") \/ includes(weatherDesc, "Drizzle")
    THEN "rainy"
  ELSE IF includes(weatherDesc, "Snow") THEN "snowy"
  ELSE IF includes(weatherDesc, "Cloud") \/ includes(weatherDesc, "Overcast")
    THEN "overcast"
  ELSE IF includes(weatherDesc, "Fog") THEN "foggy"
  ELSE IF ~isDaytime THEN "night"
  ELSE "sunny"

backgroundType(weatherDesc, isDaytime) ==
  IF includes(weatherDesc, "Rain") \/ includes(weatherDesc, "Drizzle")
    THEN "rainy"
  ELSE IF includes(weatherDesc, "Snow") THEN "snowy"
  ELSE IF includes(weatherDesc, "Cloud") \/ includes(weatherDesc, "Overcast")
    THEN "overcast"
  ELSE IF includes(weatherDesc, "Fog") THEN "foggy"
  ELSE IF includes(weatherDesc, "Thunder") THEN "stormy"
  ELSE IF ~isDaytime THEN "night"
  ELSE "sunny"

\* One clothing entry; the emoji is named by its code point.
Item(name, emoji) == [item |-> name, emoji |-> emoji]

temperatureItems(tempCategory) ==
  IF tempCategory \in {"extreme cold", "very cold", "cold"}
    THEN << Item("Heavy Coat", "U+1F9E5"), Item("Winter Hat", "U+1F9E2"),
            Item("Gloves", "U+1F9E4"), Item("Long Pants", "U+1F456") >>
  ELSE IF tempCategory = "cool"
    THEN << Item("Light Jacket", "U+1F9E5"), Item("Long Pants", "U+1F456") >>
  ELSE IF tempCategory = "mild"
    THEN << Item("Long Sleeve", "U+1F455"), Item("Long Pants", "U+1F456") >>
  ELSE IF tempCategory \in {"warm", "hot"}
    THEN << Item("T-Shirt", "U+1F455"), Item("Shorts", "U+1FA73") >>
  ELSE IF tempCategory = "very hot"
    THEN << Item("Light Clothes", "U+1F455"), Item("Shorts", "U+1FA73"),
            Item("Hydration", "U+1F4A7") >>
  ELSE << >>

precipitationItems(precip) ==
  IF precip > THRESHOLDS.MINIMAL_PRECIPITATION
    THEN << Item("Umbrella", "U+2602"), Item("Rain Jacket", "U+1F9E5") >>
  ELSE << >>

snowItems(weatherDesc) ==
  IF includes(weatherDesc, "Snow")
    THEN << Item("Snow Boots", "U+1F462") >>
  ELSE << >>

uvItems(uvIndex, isDaytime) ==
  IF isDaytime /\ uvIndex >= THRESHOLDS.UV.MODERATE
    THEN << Item("Sunglasses", "U+1F576") >>
           \o (IF uvIndex >= THRESHOLDS.UV.HIGH
                 THEN << Item("Sunscreen", "U+1F9F4"), Item("Hat", "U+1F452") >>
                 ELSE << >>)
  ELSE << >>

windItems(windSpeed) ==
  IF windSpeed > THRESHOLDS.WIND_CHILL.LIGHT.threshold
    THEN << Item("Wind Protection", "U+1F4A8") >>
  ELSE << >>

\* Variant of generateAPLData: the wind group is appended before the UV
\* group.
generateAPLData_windEarly(weatherDesc, effTemp, precip, windSpeed, humidity, uvIndex, isDaytime) ==
  LET tempCategory  == getTempCategory(effTemp)
      clothingItems == temperatureItems(tempCategory)
                         \o precipitationItems(precip)
                         \o snowItems(weatherDesc)
                         \o windItems(windSpeed)
                         \o uvItems(uvIndex, isDaytime)
  IN  [ background              |-> backgroundType(weatherDesc, isDaytime),
        timeOfDay               |-> IF isDaytime THEN "day" ELSE "night",
        clothingRecommendations |-> clothingItems,
        temperature             |-> MathRound(effTemp),
        temperatureCategory     |-> tempCategory,
        weatherCondition        |-> weatherDesc,
        uvIndex                 |-> uvIndex,
        humidity                |-> humidity,
        windSpeed               |-> windSpeed ]

generateAPLData(weatherDesc, effTemp, precip, windSpeed, humidity, uvIndex, isDaytime) ==
  LET tempCategory  == getTempCategory(effTemp)
      clothingItems == temperatureItems(tempCategory)
                         \o precipitationItems(precip)
                         \o snowItems(weatherDesc)
                         \o uvItems(uvIndex, isDaytime)
                         \o windItems(windSpeed)
  IN  [ background              |-> backgroundType(weatherDesc, isDaytime),
        timeOfDay               |-> IF isDaytime THEN "day" ELSE "night",
        clothingRecommendations |-> clothingItems,
        temperature             |-> MathRound(effTemp),
        temperatureCategory     |-> tempCategory,
        weatherCondition        |-> weatherDesc,
        uvIndex                 |-> uvIndex,
        humidity                |-> humidity,
        windSpeed               |-> windSpeed ]

(***************************************************************************)
(* Later-today scanner.                                                    *)
(* weatherData.hourly is the record of the parallel arrays time,           *)
(* temperature_2m, windspeed_10m, relativehumidity_2m, precipitation and   *)
(* weathercode.  An element of the statements array is held as a record:   *)
(* text is the string the code pushes; kind and at only annotate it with   *)
(* the trigger that pushed it and the index i of the hour it was pushed at.*)
(***************************************************************************)
Statement(kind, i, text) == [kind |-> kind, at |-> i, text |-> text]

\* A JSON object is a record whose DOMAIN holds the keys that are present;
\* has(obj, key) is the truthiness test of obj.key.
has(obj, key) == key \in DOMAIN obj

\* weatherData.hourly.time || []
hourlyTimesOf(weatherData) ==
  IF has(weatherData.hourly, "time") THEN weatherData.hourly.time ELSE << >>

\* statements = [] and notifiedConditions = {false, false, false}
noStatements ==
  [ statements |-> << >>, tempSwing |-> FALSE, precipitation |-> FALSE,
    wind |-> FALSE ]

\* The first loop: is some entry after startIndex on nowDate's day of month?
hasFutureHoursToday(startIndex, hourlyTimes, nowDate) ==
  \E i \in (startIndex + 1)..(Len(hourlyTimes) - 1) :
     At(hourlyTimes, i).date = nowDate.date

\* Variant of checkTempSwing: the statement is put first (unshift, not push).
checkTempSwing_unshift(st, i, t, cat, catIdx, currentCatIndex) ==
  IF ~st.tempSwing
       /\ MathAbs(catIdx - currentCatIndex) >= THRESHOLDS.TEMP_CATEGORY_SWING
    THEN [st EXCEPT
            !.statements = << Statement("temp_swing", i,
                "Around " \o formatHour(t) \o ", it may feel " \o cat \o ". "
                  \o shortAdviceForCategory(cat)) >> \o @,
            !.tempSwing = TRUE]
    ELSE st

\* 1) Big temp category swing
checkTempSwing(st, i, t, cat, catIdx, currentCatIndex) ==
  IF ~st.tempSwing
       /\ MathAbs(catIdx - currentCatIndex) >= THRESHOLDS.TEMP_CATEGORY_SWING
    THEN [st EXCEPT
            !.statements = Append(@, Statement("temp_swing", i,
                "Around " \o formatHour(t) \o ", it may feel " \o cat \o ". "
                  \o shortAdviceForCategory(cat))),
            !.tempSwing = TRUE]
    ELSE st

\* Variant of checkPrecipitation: notifiedConditions.precipitation is not set.
checkPrecipitation_noFlag(st, i, t, prec, code) ==
  IF ~st.precipitation /\ prec > THRESHOLDS.SIGNIFICANT_PRECIPITATION
    THEN [st EXCEPT
            !.statements = Append(@, Statement("precipitation", i,
                "Expect " \o toLowerCase(getWeatherDescription(code))
                  \o " near " \o formatHour(t) \o ", so bring rain gear."))]
    ELSE st

\* 2) Precipitation
checkPrecipitation(st, i, t, prec, code) ==
  IF ~st.precipitation /\ prec > THRESHOLDS.SIGNIFICANT_PRECIPITATION
    THEN [st EXCEPT
            !.statements = Append(@, Statement("precipitation", i,
                "Expect " \o toLowerCase(getWeatherDescription(code))
                  \o " near " \o formatHour(t) \o ", so bring rain gear.")),
            !.precipitation = TRUE]
    ELSE st

\* Variant of checkWind: the look-ahead window is not tested.
checkWind_noWindow(st, i, t, wind, startIndex) ==
  IF ~st.wind /\ wind > THRESHOLDS.HIGH_WIND_SPEED
    THEN [st EXCEPT
            !.statements = Append(@, Statement("wind", i,
                "Strong winds expected around " \o formatHour(t)
                  \o ", consider wind protection.")),
            !.wind = TRUE]
    ELSE st

\* 3) High wind
checkWind(st, i, t, wind, startIndex) ==
  IF ~st.wind
       /\ wind > THRESHOLDS.HIGH_WIND_SPEED
       /\ i <= startIndex + THRESHOLDS.WIND_FORECAST_HOURS
    THEN [st EXCEPT
            !.statements = Append(@, Statement("wind", i,
                "Strong winds expected around " \o formatHour(t)
                  \o ", consider wind protection.")),
            !.wind = TRUE]
    ELSE st

\* The body of the scan loop for hour i (an hour on nowDate's day of month).
scanHour(st, i, startIndex, currentCatIndex, hourly) ==
  LET t       == At(hourly.time, i)
      rawTemp == At(hourly.temperature_2m, i)
      wind    == At(hourly.windspeed_10m, i)
      hum     == At(hourly.relativehumidity_2m, i)
      prec    == At(hourly.precipitation, i)
      code    == At(hourly.weathercode, i)
      eff     == computeEffectiveTemp(rawTemp, wind, hum)
      cat     == getTempCategory(eff)
      catIdx  == categoryIndex(cat)
      st1     == checkTempSwing(st, i, t, cat, catIdx, currentCatIndex)
      st2     == checkPrecipitation(st1, i, t, prec, code)
  IN  checkWind(st2, i, t, wind, startIndex)

RECURSIVE scanFrom(_, _, _, _, _, _)

\* Variant of scanFrom: the category of the hour just walked becomes the
\* reference of the next hour.
scanFrom_rollingReference(i, st, startIndex, currentCatIndex, nowDate, hourly) ==
  IF i >= Len(hourly.time) THEN st
  ELSE IF At(hourly.time, i).date # nowDate.date THEN st
  ELSE scanFrom(i + 1, scanHour(st, i, startIndex, currentCatIndex, hourly),
                startIndex,
                categoryIndex(getTempCategory(computeEffectiveTemp(
                  At(hourly.temperature_2m, i), At(hourly.windspeed_10m, i),
                  At(hourly.relativehumidity_2m, i)))),
                nowDate, hourly)

\* The scan loop from index i on: stops at the end of the series or at the
\* first entry whose day of month differs from nowDate's.
scanFrom(i, st, startIndex, currentCatIndex, nowDate, hourly) ==
  IF i >= Len(hourly.time) THEN st
  ELSE IF At(hourly.time, i).date # nowDate.date THEN st
  ELSE scanFrom(i + 1, scanHour(st, i, startIndex, currentCatIndex, hourly),
                startIndex, currentCatIndex, nowDate, hourly)

\* Variant of limitStatements: the cap keeps the last statements.
limitStatements_keepLast(statements) ==
  IF Len(statements) > THRESHOLDS.MAX_LATER_STATEMENTS
    THEN SubSeq(statements,
                Len(statements) - THRESHOLDS.MAX_LATER_STATEMENTS + 1,
                Len(statements))
    ELSE statements

\* Variant of limitStatements: the splice is missing.
limitStatements_noSplice(statements) == statements

\* statements.splice(MAX_LATER_STATEMENTS) when the array is longer
limitStatements(statements) ==
  IF Len(statements) > THRESHOLDS.MAX_LATER_STATEMENTS
    THEN SubSeq(statements, 1, THRESHOLDS.MAX_LATER_STATEMENTS)
    ELSE statements

\* The statements array at the end of the scan loop, before the cap
\* (empty on each early return).
scanStatements(startIndex, nowEff, weatherData) ==
  LET hourlyTimes == hourlyTimesOf(weatherData)
  IN  IF Len(hourlyTimes) = 0 \/ startIndex < 0 THEN << >>
      ELSE LET currentCatIndex == categoryIndex(getTempCategory(nowEff))
               nowDate         == At(hourlyTimes, startIndex)
           IN  IF ~hasFutureHoursToday(startIndex, hourlyTimes, nowDate)
                 THEN << >>
                 ELSE scanFrom(startIndex + 1, noStatements, startIndex,
                               currentCatIndex, nowDate,
                               weatherData.hourly).statements

\* The statements array as it is when analyzeLaterToday returns.
laterStatements(startIndex, nowEff, weatherData) ==
  limitStatements(scanStatements(startIndex, nowEff, weatherData))

analyzeLaterToday(startIndex, nowEff, weatherData) ==
  LET statements == laterStatements(startIndex, nowEff, weatherData)
  IN  IF Len(statements) = 0 THEN ""
      ELSE "Later today, watch for changes. "
             \o join([k \in 1..Len(statements) |-> statements[k].text], " ")

(***************************************************************************)
(* Handler                                                                 *)
(***************************************************************************)
\* Variant of locateSameDay: only the day of the month is compared.
locateSameDay_dayOnly(i, idx, hourlyTimes, currentTimeObj) ==
  LET qualifying == { k \in i..(Len(hourlyTimes) - 1) :
                        /\ At(hourlyTimes, k).date = currentTimeObj.date
                        /\ At(hourlyTimes, k).hours <= currentTimeObj.hours }
      exact      == { k \in qualifying :
                        At(hourlyTimes, k).hours = currentTimeObj.hours }
      first(S)   == CHOOSE k \in S : \A m \in S : k <= m
      last(S)    == CHOOSE k \in S : \A m \in S : k >= m
  IN  IF exact # {} THEN first(exact)
      ELSE IF qualifying # {} THEN last(qualifying)
      ELSE idx

\* The first locator loop from index i on, idx being the value so far:
\* same year, month and day of month and hour <= the current hour;
\* stops at the first exact hour match.
RECURSIVE locateSameDay(_, _, _, _)
locateSameDay(i, idx, hourlyTimes, currentTimeObj) ==
  IF i >= Len(hourlyTimes) THEN idx
  ELSE LET hourlyTime == At(hourlyTimes, i)
       IN  IF /\ hourlyTime.date = currentTimeObj.date
              /\ hourlyTime.month = currentTimeObj.month
              /\ hourlyTime.year = currentTimeObj.year
              /\ hourlyTime.hours <= currentTimeObj.hours
             THEN IF hourlyTime.hours = currentTimeObj.hours
                    THEN i
                    ELSE locateSameDay(i + 1, i, hourlyTimes, currentTimeObj)
             ELSE locateSameDay(i + 1, idx, hourlyTimes, currentTimeObj)

\* Variant of locateLastBefore: index 0 is taken when no entry qualifies.
locateLastBefore_first(i, hourlyTimes, currentTimeObj) ==
  IF \E k \in 0..i : dateLE(At(hourlyTimes, k), currentTimeObj)
    THEN CHOOSE k \in 0..i :
           /\ dateLE(At(hourlyTimes, k), currentTimeObj)
           /\ \A m \in (k + 1)..i : ~dateLE(At(hourlyTimes, m), currentTimeObj)
    ELSE 0

\* The second locator loop, from index i downwards: the last entry that is
\* not after the current time, or -1.
RECURSIVE locateLastBefore(_, _, _)
locateLastBefore(i, hourlyTimes, currentTimeObj) ==
  IF i < 0 THEN -1
  ELSE IF dateLE(At(hourlyTimes, i), currentTimeObj) THEN i
  ELSE locateLastBefore(i - 1, hourlyTimes, currentTimeObj)

\* Variant of locateHour: the second loop is left out.
locateHour_noFallback(hourlyTimes, currentTimeObj) ==
  locateSameDay(0, -1, hourlyTimes, currentTimeObj)

\* The value of idx after both loops.
locateHour(hourlyTimes, currentTimeObj) ==
  LET idx == locateSameDay(0, -1, hourlyTimes, currentTimeObj)
  IN  IF idx = -1 /\ Len(hourlyTimes) > 0
        THEN locateLastBefore(Len(hourlyTimes) - 1, hourlyTimes,
                              currentTimeObj)
        ELSE idx

\* Variant of errorResponse: the apology is returned with status 200.
errorResponse_status200 ==
  [ statusCode |-> 200,
    body |-> [ response |->
      "Sorry, I had trouble getting the weather information for that location." ] ]

\* The catch block's result.
errorResponse ==
  [ statusCode |-> 500,
    body |-> [ response |->
      "Sorry, I had trouble getting the weather information for that location." ] ]

\* Whether steps 4 to 12 throw.  Step 5 indexes
\* weatherData.hourly.relativehumidity_2m and weatherData.hourly.precipitation
\* when idx >= 0, and indexing an absent array is a TypeError.
handlerThrows(weatherData) ==
  LET idx == locateHour(hourlyTimesOf(weatherData), weatherData.current_weather.time)
  IN  /\ idx >= 0
      /\ \/ ~has(weatherData.hourly, "relativehumidity_2m")
         \/ ~has(weatherData.hourly, "precipitation")

\* The values of the handler's local variables from step 4 to step 12; they
\* exist only when every call of steps 9 to 12 has returned.
handlerLocals(weatherData) ==
  LET cw             == weatherData.current_weather
      hourlyTimes    == hourlyTimesOf(weatherData)
      currentTimeObj == cw.time
      idx            == locateHour(hourlyTimes, currentTimeObj)
      currentHumidity == IF idx >= 0
                           THEN At(weatherData.hourly.relativehumidity_2m, idx)
                           ELSE Num(50, 0)
      currentPrecip  == IF idx >= 0
                           THEN At(weatherData.hourly.precipitation, idx)
                           ELSE Num(0, 0)
      hasDaily(k)    == has(weatherData, "daily") /\ has(weatherData.daily, k)
      uvMax          == IF hasDaily("uv_index_max")
                          THEN At(weatherData.daily.uv_index_max, 0)
                          ELSE Num(3, 0)
      sunrise        == IF hasDaily("sunrise")
                          THEN << At(weatherData.daily.sunrise, 0) >>
                          ELSE << >>
      sunset         == IF hasDaily("sunset")
                          THEN << At(weatherData.daily.sunset, 0) >>
                          ELSE << >>
      isDaytime      == isTimeBetween(currentTimeObj, sunrise, sunset)
      weatherDescription == getWeatherDescription(cw.weathercode)
      nowEff         == computeEffectiveTemp(cw.temperature, cw.windspeed,
                                             currentHumidity)
  IN  [ currentTemp        |-> cw.temperature,
        currentWind        |-> cw.windspeed,
        currentTime        |-> cw.time,
        idx                |-> idx,
        currentHumidity    |-> currentHumidity,
        currentPrecip      |-> currentPrecip,
        uvMax              |-> uvMax,
        isDaytime          |-> isDaytime,
        weatherDescription |-> weatherDescription,
        nowEff             |-> nowEff,
        nowRecommendation  |->
          getClothingRecommendation(nowEff, currentPrecip, cw.windspeed,
            currentHumidity, uvMax, weatherDescription, isDaytime),
        laterSummary       |-> analyzeLaterToday(idx, nowEff, weatherData),
        visualData         |->
          generateAPLData(weatherDescription, nowEff, currentPrecip,
            cw.windspeed, currentHumidity, uvMax, isDaytime) ]

\* The object the handler returns on the success path.  The body is held as
\* the object given to JSON.stringify; of diagnostics, startDate,
\* hourlyTimeStart, hourlyTimeEnd and laterAnalysis are left out.
successResponse(l, name, weatherData) ==
  [ statusCode |-> 200,
    body |->
      [ response |->
          "It's about " \o ToString(MathRound(l.currentTemp))
            \o " degrees right now with " \o toLowerCase(l.weatherDescription)
            \o " conditions. " \o l.nowRecommendation
            \o (IF l.laterSummary # "" THEN " " \o l.laterSummary ELSE ""),
        temperature        |-> MathRound(l.currentTemp),
        weatherDescription |-> l.weatherDescription,
        recommendation     |-> l.nowRecommendation,
        laterChanges       |-> l.laterSummary,
        locationName       |-> name,
        apl                |-> l.visualData,
        diagnostics |->
          [ currentEffectiveTemp |-> l.nowEff,
            currentCategory      |-> getTempCategory(l.nowEff),
            currentCategoryIndex |-> categoryIndex(getTempCategory(l.nowEff)),
            currentTime          |-> l.currentTime,
            hourlyTimesLength    |-> Len(hourlyTimesOf(weatherData)),
            currentTimeIdx       |-> l.idx ] ] ]

(***************************************************************************)
(* State                                                                   *)
(***************************************************************************)
VARIABLES
  pc,          \* the handler's position: the await it is suspended at
  event,       \* the event the handler was invoked with
  geoData,     \* the parsed geocoding reply
  weatherData, \* the parsed forecast reply
  locals,      \* the handler's local variables of steps 4 to 12
  response,    \* the object the handler returned
  fn,          \* the function invoked directly ("none" in a handler run)
  args,        \* its arguments
  returned,    \* whether it has returned
  ret,         \* its return value
  moduleScope, \* the module-level bindings of the weather service
  skillPc,       \* the skill handler's position
  handlerInput,  \* the request the skill handler was invoked with
  serviceCalls,  \* the calls the skill handler has made to other services
  address,       \* the reply of the device address service
  responseData,  \* the parsed reply of the weather service API
  skillResponse  \* the response the skill handler built

vars == << pc, event, geoData, weatherData, locals, response,
           fn, args, returned, ret, moduleScope,
           skillPc, handlerInput, serviceCalls, address, responseData,
           skillResponse >>

skillVars == << skillPc, handlerInput, serviceCalls, address, responseData,
                skillResponse >>

handlerVars == << pc, event, geoData, weatherData, locals, response >>
callVars    == << fn, args, returned, ret >>

\* No handler invocation / no direct invocation in this run.
noHandler ==
  /\ pc = "none" /\ event = << >> /\ geoData = << >>
  /\ weatherData = << >> /\ locals = << >> /\ response = << >>

noCall == fn = "none" /\ args = << >> /\ returned = FALSE /\ ret = << >>

\* The weather service's module scope after loading: the one binding
\* THRESHOLDS.
moduleLoaded == moduleScope = [THRESHOLDS |-> THRESHOLDS]

\* No skill invocation in this run.
noSkill ==
  /\ skillPc = "none" /\ handlerInput = << >> /\ serviceCalls = << >>
  /\ address = << >> /\ responseData = << >> /\ skillResponse = << >>

(***************************************************************************)
(* Direct invocation of analyzeLaterToday on bounded forecast datasets     *)
(***************************************************************************)
\* Length of the hourly series with the full set of hour profiles.
MaxHours == 4

\* Length of the hourly series with the reduced set of hour profiles.
MaxLongHours == 6

HourProfile(temp, wind, hum, prec, code) ==
  [ temperature_2m |-> temp, windspeed_10m |-> wind,
    relativehumidity_2m |-> hum, precipitation |-> prec, weathercode |-> code ]

Calm  == HourProfile(Num(60, 0), Num(3, 0),  Num(50, 0), Num(0, 0),  0)
Cold  == HourProfile(Num(30, 0), Num(3, 0),  Num(50, 0), Num(0, 0),  3)
Rain  == HourProfile(Num(60, 0), Num(3, 0),  Num(50, 0), Num(0, 40), 63)
Windy == HourProfile(Num(72, 0), Num(30, 0), Num(50, 0), Num(0, 0),  2)
Storm == HourProfile(Num(30, 0), Num(30, 0), Num(50, 0), Num(0, 50), 95)

RichProfiles == {Calm, Cold, Rain, Windy, Storm}
LongProfiles == {Calm, Rain, Storm}

\* Series that reach past the wind look-ahead window within one day: their
\* length, and the profiles of their hours.
MaxWindowHours == 10
WindowProfiles == {Calm, Windy}

\* Profiles of the hours scanned from a cool current hour: one rank above,
\* one rank below and two ranks below it.
SwingProfiles == {Calm, Cold, Storm}

\* The series starts on 5 January 2025 at 9:00 and advances by one hour per
\* entry; after entry number jump.at (when not 0) it continues at 0:00 of
\* the next day ("day") or of the same day of the next month ("month").
Jumps(n) ==
  {[at |-> 0, kind |-> "none"]}
    \cup {[at |-> p, kind |-> k] : p \in 1..(n - 1), k \in {"day", "month"}}

seriesTimes(n, jump) ==
  [ j \in 1..n |->
      IF jump.at = 0 \/ j <= jump.at THEN Date(2025, 0, 5, 9 + (j - 1))
      ELSE IF jump.kind = "day" THEN Date(2025, 0, 6, j - jump.at - 1)
      ELSE Date(2025, 1, 5, j - jump.at - 1) ]

\* The hourly object of the parallel arrays for a series of hour profiles.
hourlyOf(times, profiles) ==
  [ time                |-> times,
    temperature_2m      |-> [j \in 1..Len(times) |-> profiles[j].temperature_2m],
    windspeed_10m       |-> [j \in 1..Len(times) |-> profiles[j].windspeed_10m],
    relativehumidity_2m |->
      [j \in 1..Len(times) |-> profiles[j].relativehumidity_2m],
    precipitation       |-> [j \in 1..Len(times) |-> profiles[j].precipitation],
    weathercode         |-> [j \in 1..Len(times) |-> profiles[j].weathercode] ]

ScanCall(startIndex, nowEff, times, profiles) ==
  [ startIndex  |-> startIndex,
    nowEff      |-> nowEff,
    weatherData |-> [hourly |-> hourlyOf(times, profiles)] ]

InitScan ==
  /\ noHandler
  /\ moduleLoaded
  /\ noSkill
  /\ fn = "analyzeLaterToday"
  /\ returned = FALSE
  /\ ret = << >>
  /\ \/ \E ps \in [1..MaxHours -> RichProfiles], jump \in Jumps(MaxHours),
           e \in {Num(60, 0), Num(30, 0)} :
          args = ScanCall(0, e, seriesTimes(MaxHours, jump), ps)
     \/ \E ps \in [1..MaxLongHours -> LongProfiles],
           jump \in Jumps(MaxLongHours), si \in {0, 1} :
          args = ScanCall(si, Num(60, 0), seriesTimes(MaxLongHours, jump), ps)
     \/ \E ps \in [1..MaxHours -> SwingProfiles] :
          args = ScanCall(0, Num(40, 0),
                          seriesTimes(MaxHours, [at |-> 0, kind |-> "none"]), ps)
     \/ \E ps \in [1..MaxWindowHours -> WindowProfiles], si \in {0, 1} :
          args = ScanCall(si, Num(60, 0),
                          seriesTimes(MaxWindowHours, [at |-> 0, kind |-> "none"]), ps)

\* analyzeLaterToday(startIndex, nowEff, weatherData).  ret.summary is the
\* returned string; ret.statements is the statements array it was joined
\* from and ret.fired the array before the cap.
CallAnalyzeLaterToday ==
  /\ fn = "analyzeLaterToday"
  /\ ~returned
  /\ returned' = TRUE
  /\ ret' = [ summary    |-> analyzeLaterToday(args.startIndex, args.nowEff,
                                               args.weatherData),
              statements |-> laterStatements(args.startIndex, args.nowEff,
                                             args.weatherData),
              fired      |-> scanStatements(args.startIndex, args.nowEff,
                                            args.weatherData) ]
  /\ UNCHANGED << fn, args, handlerVars, moduleScope, skillVars >>

NextScan == CallAnalyzeLaterToday

SpecScan == InitScan /\ [][NextScan]_vars

(***************************************************************************)
(* Properties of analyzeLaterToday                                         *)
(***************************************************************************)
scanReturned == fn = "analyzeLaterToday" /\ returned

\* Number of positions of s at which pat occurs.
occurrences(s, pat) ==
  Cardinality({i \in 1..(Len(s) - Len(pat) + 1) :
                 SubSeq(s, i, i + Len(pat) - 1) = pat})

\* The opening words of the three statement templates; none occurs in the
\* lead-in sentence or inside another template.
opener(kind) ==
  CASE kind = "temp_swing"    -> "Around "
    [] kind = "precipitation" -> "Expect "
    [] kind = "wind"          -> "Strong winds expected around "

TriggerKinds == {"temp_swing", "precipitation", "wind"}

ofKind(statements, kind) ==
  {k \in 1..Len(statements) : statements[k].kind = kind}

\* 0-based indexes of the series, and whether entry i is on the same
\* calendar day (year, month, day of month) as entry j.
indexesAfter(i) == (i + 1)..(Len(args.weatherData.hourly.time) - 1)

sameCalendarDay(i, j) ==
  LET a == At(args.weatherData.hourly.time, i)
      b == At(args.weatherData.hourly.time, j)
  IN  a.year = b.year /\ a.month = b.month /\ a.date = b.date

\* Entry i satisfies the precipitation condition.
rainyHour(i) ==
  At(args.weatherData.hourly.precipitation, i) > Num(0, 25)

\* C1: analyzeLaterToday puts at most 2 change statements into the summary
\* it returns, however many walked hours satisfy the triggers: the array it
\* joins has at most 2 elements and the returned string holds at most 2
\* statement openers.
C1_AtMostTwoStatements ==
  scanReturned =>
    /\ Len(ret.statements) <= 2
    /\ occurrences(ret.summary, opener("temp_swing"))
         + occurrences(ret.summary, opener("precipitation"))
         + occurrences(ret.summary, opener("wind")) <= 2

\* All three triggers fired during the scan and the summary kept two.
C1_Witness ==
  scanReturned /\ Len(ret.fired) = 3 /\ Len(ret.statements) = 2

\* C2: in one run each trigger kind produces at most one statement, also
\* when 5 or more walked hours satisfy its condition.
C2_OneStatementPerKind ==
  scanReturned =>
    \A kind \in TriggerKinds :
      /\ Cardinality(ofKind(ret.fired, kind)) <= 1
      /\ occurrences(ret.summary, opener(kind)) <= 1

\* Five hours after the located one, all on its day, have precipitation
\* above 0.25 in, and exactly one precipitation statement was produced.
C2_Witness ==
  /\ scanReturned
  /\ Cardinality({i \in indexesAfter(args.startIndex) :
        /\ \A j \in (args.startIndex + 1)..i :
              sameCalendarDay(j, args.startIndex)
        /\ rainyHour(i)}) >= 5
  /\ Cardinality(ofKind(ret.fired, "precipitation")) = 1

\* C3: if no entry after the located index is on the same calendar day as
\* the located hour, analyzeLaterToday returns the empty summary.
C3_EmptyWhenLastHourOfDay ==
  (/\ scanReturned
   /\ args.startIndex >= 0
   /\ \A i \in indexesAfter(args.startIndex) :
         ~sameCalendarDay(i, args.startIndex))
    => ret.summary = ""

\* The scenario of C4: the current category is mild; the hour 1 slot later
\* fires nothing, the hour 2 slots later has wind 30 mph and the hour
\* 3 slots later is in category cold, all three on the located hour's day
\* and none with precipitation above 0.25 in.
C4_Scenario ==
  LET si == args.startIndex
      h  == args.weatherData.hourly
      effAt(i) == computeEffectiveTemp(At(h.temperature_2m, i),
                    At(h.windspeed_10m, i), At(h.relativehumidity_2m, i))
  IN  /\ scanReturned
      /\ si >= 0
      /\ si + 3 < Len(h.time)
      /\ getTempCategory(args.nowEff) = "mild"
      /\ \A i \in (si + 1)..(si + 3) : sameCalendarDay(i, si) /\ ~rainyHour(i)
      /\ getTempCategory(effAt(si + 1)) \in {"cool", "mild", "warm"}
      /\ At(h.windspeed_10m, si + 1) <= Num(25, 0)
      /\ At(h.windspeed_10m, si + 2) = Num(30, 0)
      /\ getTempCategory(effAt(si + 3)) = "cold"

\* C4: the statements of the summary are in non-decreasing order of the
\* hour at which they fired; in the scenario exactly two statements are
\* returned, one temp-swing and one wind, in chronological order.
C4_ChronologicalOrder ==
  /\ scanReturned =>
       \A k \in 1..Len(ret.statements), l \in 1..Len(ret.statements) :
          k < l =>
            /\ ret.statements[k].at <= ret.statements[l].at
            /\ indexOf(ret.summary, ret.statements[k].text)
                 < indexOf(ret.summary, ret.statements[l].text)
  /\ C4_Scenario =>
       /\ Len(ret.statements) = 2
       /\ {ret.statements[1].kind, ret.statements[2].kind}
            = {"temp_swing", "wind"}
       /\ ret.statements[1].at <= ret.statements[2].at
       /\ occurrences(ret.summary, opener("temp_swing")) = 1
       /\ occurrences(ret.summary, opener("wind")) = 1
       /\ occurrences(ret.summary, opener("precipitation")) = 0

\* The scenario with the wind statement fired an hour before the
\* temp-swing statement.
C4_Witness ==
  /\ C4_Scenario
  /\ Len(ret.statements) = 2
  /\ ret.statements[1].kind = "wind"
  /\ ret.statements[2].kind = "temp_swing"
  /\ ret.statements[1].at < ret.statements[2].at

(***************************************************************************)
(* Direct invocation of the categorizer, the effective temperature         *)
(* calculator, the recommendation composer and the visual payload builder  *)
(***************************************************************************)
\* Temperatures on both sides of every category bound.
CategorizerTemps ==
  { Num(-40, 0), Num(-1, 0), -Num(0, 1), Num(0, 0), Num(0, 1),
    Num(19, 90), Num(19, 99), Num(20, 0), Num(34, 99), Num(35, 0),
    Num(49, 99), Num(50, 0), Num(64, 99), Num(65, 0), Num(79, 99),
    Num(80, 0), Num(89, 99), Num(90, 0), Num(90, 1), Num(120, 0) }

BaseTemps  ==
  { Num(-10, 0), Num(28, 0), Num(45, 0), Num(50, 0), Num(70, 0), Num(72, 0),
    Num(95, 0) }
WindSpeeds ==
  { Num(0, 0), Num(4, 99), Num(5, 0), Num(10, 0), Num(10, 99), Num(11, 0),
    Num(20, 99), Num(21, 0), Num(22, 0), Num(29, 99), Num(30, 0), Num(30, 90),
    Num(31, 0), Num(45, 0) }
Humidities == { Num(20, 0), Num(30, 0), Num(50, 0), Num(70, 0), Num(80, 0) }

AdviceTemps   == { Num(-5, 0), Num(16, 0), Num(30, 0), Num(49, 99), Num(50, 0),
                   Num(60, 0), Num(72, 0), Num(85, 0), Num(95, 0) }
AdvicePrecips == { Num(0, 0), Num(0, 10), Num(0, 25), Num(0, 40) }
AdviceWinds   == { Num(3, 0), Num(10, 0), Num(22, 0) }
AdviceHumids  == { Num(40, 0), Num(80, 0) }
AdviceUVs     == { Num(2, 0), Num(4, 0), Num(7, 0) }
AdviceTexts   == { "Clear Sky", "Light Rain", "Moderate Snow", "Thunderstorm",
                   "Foggy", "Heavy Snow Showers" }

\* Every text getWeatherDescription can return.
WeatherCodes ==
  { 0, 1, 2, 3, 45, 48, 51, 53, 55, 56, 57, 61, 63, 65, 66, 67, 71, 73, 75,
    77, 80, 81, 82, 85, 86, 95, 96, 99, 100 }
Descriptions == { getWeatherDescription(code) : code \in WeatherCodes }

\* Condition texts in other letter cases.
OtherCaseTexts == { "rain", "light rain", "HEAVY RAIN", "moderate snow" }

PayloadTemps   == { Num(16, 0), Num(60, 0), Num(95, 0) }
PayloadPrecips == { Num(0, 0), Num(0, 40) }
PayloadWinds   == { Num(3, 0), Num(6, 0), Num(22, 0) }
PayloadUVs     == { Num(1, 0), Num(4, 0), Num(7, 0) }

\* Condition texts with the keywords of two background rules, in text order
\* against the rule order as well as along it.
OrderTexts ==
  { "Thunder and Rain", "Snow and Drizzle", "Fog over Snow",
    "Overcast with Snow", "Fog under Clouds", "Thunder in Fog",
    "Thunder", "Cloudy" }

\* Wind speeds and UV indexes at and next to the thresholds of the clothing
\* groups.
BoundaryWinds == { Num(5, 0), Num(5, 1), Num(10, 0), Num(15, 0), Num(15, 1) }
BoundaryUVs   == { Num(2, 99), Num(3, 0), Num(5, 99), Num(6, 0) }

\* Condition texts with two keywords of the condition clause, and texts that
\* spell a keyword in another letter case.
ClauseTexts ==
  { "Snow and Thunderstorm", "Thunderstorm in Fog", "Fog then Snow",
    "moderate snow", "FOGGY", "thunderstorm" }

\* Arguments at and next to the thresholds of the optional clauses.
BoundaryPrecips == { Num(0, 0), Num(0, 1), Num(0, 25), Num(0, 26) }
ClauseTemps     == { Num(49, 99), Num(50, 0) }
ClauseWinds     == { Num(10, 0), Num(10, 1) }

InitCalls ==
  /\ noHandler
  /\ moduleLoaded
  /\ noSkill
  /\ returned = FALSE
  /\ ret = << >>
  /\ \/ /\ fn = "getTempCategory"
        /\ \E t \in CategorizerTemps : args = [effTemp |-> t]
     \/ /\ fn = "computeEffectiveTemp"
        /\ \E t \in BaseTemps, w \in WindSpeeds, h \in Humidities :
              args = [tempF |-> t, windMph |-> w, humidity |-> h]
     \/ /\ fn = "getClothingRecommendation"
        /\ \E t \in AdviceTemps, p \in AdvicePrecips, w \in AdviceWinds,
              h \in AdviceHumids, u \in AdviceUVs, d \in AdviceTexts,
              day \in BOOLEAN :
              args = [ effTemp |-> t, precip |-> p, windSpeed |-> w,
                       humidity |-> h, uvIndex |-> u, weatherDesc |-> d,
                       isDaytime |-> day ]
     \/ /\ fn = "getClothingRecommendation"
        /\ \E t \in ClauseTemps, p \in BoundaryPrecips, w \in ClauseWinds,
              u \in BoundaryUVs, d \in ClauseTexts, day \in BOOLEAN :
              args = [ effTemp |-> t, precip |-> p, windSpeed |-> w,
                       humidity |-> Num(40, 0), uvIndex |-> u,
                       weatherDesc |-> d, isDaytime |-> day ]
     \/ /\ fn = "generateAPLData"
        /\ \E d \in Descriptions \cup OtherCaseTexts, t \in PayloadTemps,
              p \in PayloadPrecips, w \in PayloadWinds, u \in PayloadUVs,
              day \in BOOLEAN :
              args = [ weatherDesc |-> d, effTemp |-> t, precip |-> p,
                       windSpeed |-> w, humidity |-> Num(50, 0),
                       uvIndex |-> u, isDaytime |-> day ]
     \/ /\ fn = "generateAPLData"
        /\ \E d \in OrderTexts, day \in BOOLEAN :
              args = [ weatherDesc |-> d, effTemp |-> Num(60, 0),
                       precip |-> Num(0, 0), windSpeed |-> Num(3, 0),
                       humidity |-> Num(50, 0), uvIndex |-> Num(1, 0),
                       isDaytime |-> day ]
     \/ /\ fn = "generateAPLData"
        /\ \E d \in {"Moderate Snow", "Clear Sky"},
              t \in {Num(16, 0), Num(95, 0)}, p \in {Num(0, 0), Num(0, 1)},
              w \in BoundaryWinds, u \in BoundaryUVs, day \in BOOLEAN :
              args = [ weatherDesc |-> d, effTemp |-> t, precip |-> p,
                       windSpeed |-> w, humidity |-> Num(50, 0),
                       uvIndex |-> u, isDaytime |-> day ]

\* categoryIndex(getTempCategory(effTemp))
CallGetTempCategory ==
  /\ fn = "getTempCategory"
  /\ ~returned
  /\ returned' = TRUE
  /\ ret' = [ category |-> getTempCategory(args.effTemp),
              rank     |-> categoryIndex(getTempCategory(args.effTemp)) ]
  /\ UNCHANGED << fn, args, handlerVars, moduleScope, skillVars >>

CallComputeEffectiveTemp ==
  /\ fn = "computeEffectiveTemp"
  /\ ~returned
  /\ returned' = TRUE
  /\ ret' = computeEffectiveTemp(args.tempF, args.windMph, args.humidity)
  /\ UNCHANGED << fn, args, handlerVars, moduleScope, skillVars >>

CallGetClothingRecommendation ==
  /\ fn = "getClothingRecommendation"
  /\ ~returned
  /\ returned' = TRUE
  /\ ret' = getClothingRecommendation(args.effTemp, args.precip,
              args.windSpeed, args.humidity, args.uvIndex, args.weatherDesc,
              args.isDaytime)
  /\ UNCHANGED << fn, args, handlerVars, moduleScope, skillVars >>

CallGenerateAPLData ==
  /\ fn = "generateAPLData"
  /\ ~returned
  /\ returned' = TRUE
  /\ ret' = generateAPLData(args.weatherDesc, args.effTemp, args.precip,
              args.windSpeed, args.humidity, args.uvIndex, args.isDaytime)
  /\ UNCHANGED << fn, args, handlerVars, moduleScope, skillVars >>

NextCalls ==
  \/ CallGetTempCategory
  \/ CallComputeEffectiveTemp
  \/ CallGetClothingRecommendation
  \/ CallGenerateAPLData

SpecCalls == InitCalls /\ [][NextCalls]_vars

(***************************************************************************)
(* Properties of the categorizer and the effective temperature             *)
(***************************************************************************)
\* The upper bounds of the first seven categories, in degrees.
CategoryBounds ==
  { Num(0, 0), Num(20, 0), Num(35, 0), Num(50, 0), Num(65, 0), Num(80, 0),
    Num(90, 0) }

\* The rank of the interval x lies in: the number of bounds at or below x.
intervalRank(x) == Cardinality({b \in CategoryBounds : b <= x})

\* C5: categoryIndex(getTempCategory(t)) is a rank in 0..7, never -1, equal
\* to the number of bounds 0, 20, 35, 50, 65, 80, 90 at or below t (eight
\* contiguous half-open intervals), and no lower temperature has a higher
\* rank; -1 is extreme cold, 0 and 19.9 are very cold, 20 is cold, 90 is
\* very hot.
C5_CategoryPartition ==
  (fn = "getTempCategory" /\ returned) =>
    /\ ret.rank \in 0..7
    /\ ret.rank # -1
    /\ ret.rank = intervalRank(args.effTemp)
    /\ ret.category = categories[ret.rank + 1]
    /\ \A u \in CategorizerTemps :
          u <= args.effTemp
            => categoryIndex(getTempCategory(u)) <= ret.rank
    /\ args.effTemp = Num(-1, 0)  => ret.category = "extreme cold"
    /\ args.effTemp = Num(0, 0)   => ret.category = "very cold"
    /\ args.effTemp = Num(19, 90) => ret.category = "very cold"
    /\ args.effTemp = Num(20, 0)  => ret.category = "cold"
    /\ args.effTemp = Num(90, 0)  => ret.category = "very hot"

\* The categorizer has returned for 20 degrees, the lower end of "cold".
C5_Witness ==
  /\ fn = "getTempCategory" /\ returned
  /\ args.effTemp = Num(20, 0)
  /\ ret.rank = 2

\* The reduction C6 states for a wind speed.
claimedWindReduction(w) ==
  IF w < Num(5, 0) THEN 0
  ELSE IF w < Num(11, 0) THEN Num(4, 0)
  ELSE IF w < Num(21, 0) THEN Num(8, 0)
  ELSE IF w < Num(31, 0) THEN Num(12, 0)
  ELSE Num(18, 0)

\* C6: computeEffectiveTemp subtracts the wind adjustment of the bands
\* [5,11) -> 4, [11,21) -> 8, [21,31) -> 12, [31,oo) -> 18 and nothing
\* below 5 mph (stated for a humidity between 30 and 70, where there is no
\* humidity adjustment).
C6_WindBands ==
  (/\ fn = "computeEffectiveTemp" /\ returned
   /\ args.humidity >= Num(30, 0) /\ args.humidity <= Num(70, 0))
    => args.tempF - ret = claimedWindReduction(args.windMph)

(***************************************************************************)
(* Properties of the visual payload builder and the recommendation composer*)
(***************************************************************************)
payloadReturned == fn = "generateAPLData" /\ returned

\* C8 as stated: the background is "rainy" whenever the condition text
\* contains the word rain in any letter case, for both daytime flags.
C8_RainyAnyCase ==
  (payloadReturned /\ includes(toLowerCase(args.weatherDesc), "rain"))
    => ret.background = "rainy"

\* C8 amended: the background is "rainy" whenever the condition text
\* contains "Rain" spelled with a capital R and lower-case "ain", for both
\* daytime flags (the rain match wins over the "night" fallback); a text
\* that spells the word in another letter case and matches no other keyword
\* gets "night" or "sunny" from the daytime flag.
C8_RainyCapitalised ==
  /\ (payloadReturned /\ includes(args.weatherDesc, "Rain"))
       => ret.background = "rainy"
  /\ (payloadReturned /\ args.weatherDesc \in {"rain", "light rain", "HEAVY RAIN"})
       => ret.background = (IF args.isDaytime THEN "sunny" ELSE "night")

\* The builder has returned "rainy" for a text with "Rain" at night.
C8_Witness ==
  /\ payloadReturned
  /\ includes(args.weatherDesc, "Rain")
  /\ ~args.isDaytime
  /\ ret.background = "rainy"

adviceReturned == fn = "getClothingRecommendation" /\ returned

\* The optional clauses, each with the position of its group in the fixed
\* order precipitation (1), condition (2), wind+cold (3), humidity+warm (4),
\* UV (5).
OptionalClauses ==
  << [group |-> 1, text |-> " Bring a waterproof layer."],
     [group |-> 1, text |-> " Consider a light rain jacket."],
     [group |-> 2, text |-> " Waterproof boots are recommended."],
     [group |-> 2, text |-> " Stay safe and avoid open areas."],
     [group |-> 2, text |-> " Wear bright clothing for visibility."],
     [group |-> 3, text |-> " A windproof coat helps."],
     [group |-> 4, text |-> " Moisture-wicking fabric is good in humidity."],
     [group |-> 5, text |-> " UV is high, wear sunscreen and a hat."],
     [group |-> 5, text |-> " Moderate UV, consider sun protection."] >>

\* The base clause of each category.
BaseClauseOf ==
  [ c \in { categories[k] : k \in 1..Len(categories) } |->
      CASE c = "extreme cold" ->
             "Wear heavy layers, insulated boots, and cover exposed skin."
        [] c = "very cold" ->
             "Thermal base layers, heavy coat, gloves, and a warm hat."
        [] c = "cold" -> "Layers plus a warm sweater and winter jacket."
        [] c = "cool" -> "Long sleeves and a jacket or hoodie."
        [] c = "mild" -> "A light jacket or long-sleeve shirt."
        [] c = "warm" -> "Short sleeves or thin layers; maybe sunglasses."
        [] c = "hot"  -> "Lightweight clothes; stay hydrated."
        [] c = "very hot" ->
             "Minimal, breathable clothing and strong sun protection." ]

\* Total length of the optional clauses that occur in s.
RECURSIVE clauseLength(_, _)
clauseLength(s, k) ==
  IF k = 0 THEN 0
  ELSE clauseLength(s, k - 1)
         + (IF includes(s, OptionalClauses[k].text)
              THEN Len(OptionalClauses[k].text) ELSE 0)

\* No guard of an optional clause holds for the arguments.
noGuardHolds ==
  /\ args.precip <= Num(0, 0)
  /\ ~includes(args.weatherDesc, "Snow")
  /\ ~includes(args.weatherDesc, "Thunderstorm")
  /\ ~includes(args.weatherDesc, "Fog")
  /\ ~(args.windSpeed > Num(10, 0) /\ args.effTemp < Num(50, 0))
  /\ ~(args.humidity > Num(70, 0) /\ args.effTemp > Num(70, 0))
  /\ ~(args.isDaytime /\ args.uvIndex >= Num(3, 0))

\* 72 degrees, wind 3, humidity 40, no precipitation, UV 2, daytime, clear.
C10_Example ==
  /\ adviceReturned
  /\ args = [ effTemp |-> Num(72, 0), precip |-> Num(0, 0),
              windSpeed |-> Num(3, 0), humidity |-> Num(40, 0),
              uvIndex |-> Num(2, 0), weatherDesc |-> "Clear Sky",
              isDaytime |-> TRUE ]

\* C10: the advice is a non-empty string that starts with
\* "It feels <category>." and the base clause of the category; the optional
\* clauses that follow are in the order precipitation, condition, wind+cold,
\* humidity+warm, UV and nothing else follows; when no guard holds the
\* advice is exactly the prefix and the base clause.
C10_AdviceComposition ==
  adviceReturned =>
    LET cat  == categories[intervalRank(args.effTemp) + 1]
        head == "It feels " \o cat \o ". " \o BaseClauseOf[cat]
    IN  /\ ret # ""
        /\ startsWith(ret, head)
        /\ Len(ret) = Len(head) + clauseLength(ret, Len(OptionalClauses))
        /\ \A k \in 1..Len(OptionalClauses), l \in 1..Len(OptionalClauses) :
              (/\ OptionalClauses[k].group < OptionalClauses[l].group
               /\ includes(ret, OptionalClauses[k].text)
               /\ includes(ret, OptionalClauses[l].text))
                => /\ indexOf(ret, OptionalClauses[k].text) > Len(head)
                   /\ indexOf(ret, OptionalClauses[k].text)
                        < indexOf(ret, OptionalClauses[l].text)
        /\ noGuardHolds => ret = head
        /\ C10_Example =>
             ret = "It feels warm. Short sleeves or thin layers; maybe sunglasses."

\* The composer has returned an advice with a precipitation, a condition,
\* a wind+cold and a UV clause after the base clause.
C10_Witness ==
  /\ adviceReturned
  /\ includes(ret, " Bring a waterproof layer.")
  /\ includes(ret, " Waterproof boots are recommended.")
  /\ includes(ret, " A windproof coat helps.")
  /\ includes(ret, " UV is high, wear sunscreen and a hat.")

(***************************************************************************)
(* The handler.  Its four awaits are the steps of a run: fetch(geoUrl),    *)
(* geoResponse.json(), fetch(weatherUrl) and weatherResponse.json(); the   *)
(* code after the last await runs to the return without suspending.        *)
(* The replies of the two services are drawn from bounded sets.            *)
(***************************************************************************)
\* Longest hourly series in a forecast reply.
MaxReplyHours == 3

Events ==
  { [queryStringParameters |-> [zip |-> "10001"]],
    [queryStringParameters |-> << >>],
    << >> }

\* event.queryStringParameters?.zip || "98102"
zipCodeOf(ev) ==
  IF has(ev, "queryStringParameters") /\ has(ev.queryStringParameters, "zip")
    THEN ev.queryStringParameters.zip
    ELSE "98102"

GeoReplies ==
  { << >>,
    [results |-> << >>],
    [results |-> << [latitude |-> 47, longitude |-> -122, name |-> "Seattle"] >>] }

\* Times at which current_weather is reported: morning and late evening
\* of 5 January 2025.
CurrentTimes == { Date(2025, 0, 5, 10), Date(2025, 0, 5, 23) }

CurrentWeathers ==
  { [temperature |-> c[1], windspeed |-> c[2], weathercode |-> c[3], time |-> t] :
      c \in { << Num(28, 0), Num(22, 0), 73 >>,
              << Num(72, 0), Num(3, 0), 0 >>,
              << Num(60, 40), Num(12, 0), 61 >> },
      t \in CurrentTimes }

ReplyProfiles ==
  { HourProfile(Num(28, 0), Num(22, 0), Num(50, 0), Num(0, 40), 73),
    HourProfile(Num(72, 0), Num(3, 0),  Num(40, 0), Num(0, 0),  0),
    HourProfile(Num(30, 0), Num(30, 0), Num(80, 0), Num(0, 50), 95) }

\* First entry of the hourly series; the entries are one hour apart.
ReplyStarts ==
  { Date(2025, 0, 4, 22), Date(2025, 0, 5, 9), Date(2025, 0, 5, 10),
    Date(2025, 0, 5, 11) }

\* t advanced by k hours (within January).
plusHours(t, k) ==
  Date(t.year, t.month, t.date + ((t.hours + k) \div 24), (t.hours + k) % 24)

HourlyReplies ==
  { hourlyOf([j \in 1..n |-> plusHours(start, j - 1)], ps) :
      n \in {0}, start \in {Date(2025, 0, 5, 9)}, ps \in {<< >>} }
  \cup UNION { { hourlyOf([j \in 1..n |-> plusHours(start, j - 1)], ps) :
                   start \in ReplyStarts, ps \in [1..n -> ReplyProfiles] } :
               n \in 1..MaxReplyHours }

DailyReplies ==
  { [ uv_index_max |-> << u >>,
      sunrise |-> << Date(2025, 0, 5, 7) >>,
      sunset |-> << Date(2025, 0, 5, 17) >> ] : u \in { Num(1, 0), Num(2, 0) } }

\* The object obj without its field key.
without(obj, key) == [k \in DOMAIN obj \ {key} |-> obj[k]]

\* Hourly blocks of at most one entry, and the same blocks with the
\* humidity or the precipitation array missing.
ShortHourlyReplies == { h \in HourlyReplies : Len(h.time) <= 1 }

PartialHourlyReplies ==
  { without(h, k) : h \in ShortHourlyReplies,
                    k \in {"relativehumidity_2m", "precipitation"} }

\* Daily blocks with one of the three daily arrays missing.
PartialDailyReplies ==
  { without(d, k) : d \in { dd \in DailyReplies : dd.uv_index_max = << Num(1, 0) >> },
                    k \in {"uv_index_max", "sunrise", "sunset"} }

\* Forecast replies: without a current_weather block, and with one, an
\* hourly block and an optional daily block; the last two families miss
\* one optional array.
WeatherReplies ==
  { [hourly |-> h] : h \in { hourlyOf(<< >>, << >>) } }
  \cup { [current_weather |-> c, hourly |-> h] :
           c \in CurrentWeathers, h \in HourlyReplies }
  \cup { [current_weather |-> c, hourly |-> h, daily |-> d] :
           c \in CurrentWeathers, h \in HourlyReplies, d \in DailyReplies }
  \cup { [current_weather |-> c, hourly |-> h, daily |-> d] :
           c \in CurrentWeathers, h \in ShortHourlyReplies,
           d \in PartialDailyReplies }
  \cup { [current_weather |-> c, hourly |-> h] :
           c \in CurrentWeathers, h \in PartialHourlyReplies }

InitHandler ==
  /\ noCall
  /\ moduleLoaded
  /\ noSkill
  /\ pc = "fetchGeo"
  /\ event \in Events
  /\ geoData = << >>
  /\ weatherData = << >>
  /\ locals = << >>
  /\ response = << >>

\* An exception reaches the catch block: the handler returns the 500 body.
Fail ==
  /\ pc' = "returned"
  /\ response' = errorResponse
  /\ UNCHANGED << event, geoData, weatherData, locals >>

\* await fetch(geoUrl): resolves, or rejects
FetchGeo ==
  /\ pc = "fetchGeo"
  /\ \/ /\ pc' = "jsonGeo"
        /\ UNCHANGED << event, geoData, weatherData, locals, response >>
     \/ Fail
  /\ UNCHANGED << callVars, moduleScope, skillVars >>

\* await geoResponse.json(): rejects, or resolves with geoData; no result
\* throws, otherwise the handler goes on to fetch(weatherUrl)
JsonGeo ==
  /\ pc = "jsonGeo"
  /\ \/ Fail
     \/ \E g \in GeoReplies :
          /\ geoData' = g
          /\ IF ~has(g, "results") \/ Len(g.results) = 0
               THEN /\ pc' = "returned"
                    /\ response' = errorResponse
               ELSE /\ pc' = "fetchWeather"
                    /\ UNCHANGED response
          /\ UNCHANGED << event, weatherData, locals >>
  /\ UNCHANGED << callVars, moduleScope, skillVars >>

\* await fetch(weatherUrl): resolves, or rejects
FetchWeather ==
  /\ pc = "fetchWeather"
  /\ \/ /\ pc' = "jsonWeather"
        /\ UNCHANGED << event, geoData, weatherData, locals, response >>
     \/ Fail
  /\ UNCHANGED << callVars, moduleScope, skillVars >>

\* await weatherResponse.json(): rejects, or resolves with weatherData; a
\* reply without current_weather throws, and so do reading
\* weatherData.hourly.time of a reply without hourly and indexing an absent
\* humidity or precipitation array; otherwise steps 4 to 13 run and the
\* handler returns the status-200 object
JsonWeather ==
  /\ pc = "jsonWeather"
  /\ \/ Fail
     \/ \E w \in WeatherReplies :
          /\ weatherData' = w
          /\ pc' = "returned"
          /\ IF \/ ~has(w, "current_weather")
                \/ ~has(w, "hourly")
                \/ handlerThrows(w)
               THEN /\ response' = errorResponse
                    /\ UNCHANGED locals
               ELSE /\ locals' = handlerLocals(w)
                    /\ response' = successResponse(handlerLocals(w),
                                     At(geoData.results, 0).name, w)
          /\ UNCHANGED << event, geoData >>
  /\ UNCHANGED << callVars, moduleScope, skillVars >>

NextHandler == FetchGeo \/ JsonGeo \/ FetchWeather \/ JsonWeather

SpecHandler == InitHandler /\ [][NextHandler]_vars

(***************************************************************************)
(* Properties of a handler run                                             *)
(***************************************************************************)
\* The forecast reply was parsed and has the required blocks.
forecastParsed ==
  /\ pc = "returned"
  /\ has(weatherData, "current_weather")
  /\ has(weatherData, "hourly")

\* The hourly series is empty or has no entry at or before the current time.
noHourAtOrBeforeNow ==
  \A k \in 1..Len(hourlyTimesOf(weatherData)) :
     ~dateLE(hourlyTimesOf(weatherData)[k], weatherData.current_weather.time)

\* C7: when the hourly series is empty or has no entry at or before now,
\* the locator finds no index and the handler does not fail: it uses
\* humidity 50 and precipitation 0, the later-today summary is empty and
\* the request ends with a status-200 recommendation.
C7_NotFoundDefaults ==
  (forecastParsed /\ noHourAtOrBeforeNow) =>
    /\ response.statusCode = 200
    /\ locals.idx = -1
    /\ locals.currentHumidity = Num(50, 0)
    /\ locals.currentPrecip = Num(0, 0)
    /\ locals.laterSummary = ""
    /\ response.body.laterChanges = ""
    /\ response.body.apl.humidity = Num(50, 0)
    /\ response.body.diagnostics.currentTimeIdx = -1
    /\ startsWith(response.body.recommendation, "It feels ")
    /\ includes(response.body.response, response.body.recommendation)
    /\ ~includes(response.body.response, "Later today")

\* The handler has returned for a non-empty series that starts after now.
C7_Witness ==
  /\ forecastParsed
  /\ noHourAtOrBeforeNow
  /\ Len(hourlyTimesOf(weatherData)) > 0
  /\ response.statusCode = 200

\* The inputs of the end-to-end scenario of C9, read where the handler has
\* put them after steps 4 to 8 (the locals exist once these steps are done).
C9_Scenario ==
  /\ forecastParsed
  /\ locals # << >>
  /\ weatherData.current_weather.temperature = Num(28, 0)
  /\ weatherData.current_weather.windspeed = Num(22, 0)
  /\ locals.weatherDescription = "Moderate Snow"
  /\ locals.currentHumidity = Num(50, 0)
  /\ locals.currentPrecip = Num(0, 40)
  /\ locals.uvMax = Num(1, 0)
  /\ locals.isDaytime

\* item names of a clothing list
itemNames(items) == { items[k].item : k \in 1..Len(items) }

\* C9: for 28 degrees, wind 22 mph, humidity 50, precipitation 0.4 in, UV 1,
\* daytime and "Moderate Snow" the effective temperature is 16, the
\* category very cold, the advice has the waterproof-layer,
\* waterproof-boots and windproof-coat clauses, the background is "snowy"
\* and the clothing list has the heavy-coat group, umbrella, rain jacket and
\* snow boots.
C9_EndToEndSnow ==
  C9_Scenario =>
    /\ response.statusCode = 200
    /\ response.body.diagnostics.currentEffectiveTemp = Num(16, 0)
    /\ response.body.diagnostics.currentCategory = "very cold"
    /\ response.body.apl.temperatureCategory = "very cold"
    /\ includes(response.body.recommendation, "Bring a waterproof layer.")
    /\ includes(response.body.recommendation,
                "Waterproof boots are recommended.")
    /\ includes(response.body.recommendation, "A windproof coat helps.")
    /\ includes(response.body.response, response.body.recommendation)
    /\ response.body.apl.background = "snowy"
    /\ { "Heavy Coat", "Winter Hat", "Gloves", "Long Pants", "Umbrella",
         "Rain Jacket", "Snow Boots" }
         \subseteq itemNames(response.body.apl.clothingRecommendations)

\* The handler has returned for the scenario.
C9_Witness == C9_Scenario /\ response.statusCode = 200

(***************************************************************************)
(* Missing optional fields of the forecast reply                           *)
(***************************************************************************)
\* The forecast reply has the current block and the hourly time series.
requiredPresent ==
  /\ pc = "returned"
  /\ has(weatherData, "current_weather")
  /\ has(weatherData, "hourly")
  /\ has(weatherData.hourly, "time")

dailyMissing(key) ==
  ~has(weatherData, "daily") \/ ~has(weatherData.daily, key)

\* C11: a reply with the current block and the hourly time series but
\* without the daily block, sunrise, sunset, the daily UV array, the hourly
\* humidity array or the hourly precipitation array never ends in the error
\* response: the handler returns status 200 and has used humidity 50,
\* precipitation 0, UV 3 and daytime = true for the missing value.
C11_MissingOptionalFallbacks ==
  requiredPresent =>
    /\ response.statusCode = 200
    /\ ~has(weatherData.hourly, "relativehumidity_2m")
         => locals.currentHumidity = Num(50, 0)
    /\ ~has(weatherData.hourly, "precipitation")
         => locals.currentPrecip = Num(0, 0)
    /\ dailyMissing("uv_index_max") => locals.uvMax = Num(3, 0)
    /\ (dailyMissing("sunrise") \/ dailyMissing("sunset"))
         => locals.isDaytime = TRUE

(***************************************************************************)
(* Upstream failures                                                       *)
(***************************************************************************)
\* The run ended after geocoding gave no result, after a fetch or a parse
\* was rejected (geoData or weatherData was never assigned), or after a
\* forecast reply without current_weather.
upstreamFailed ==
  /\ pc = "returned"
  /\ \/ ~has(geoData, "results")
     \/ Len(geoData.results) = 0
     \/ ~has(weatherData, "current_weather")

\* C12: when geocoding returns no result, a fetch or a JSON parse fails, or
\* the forecast has no current_weather block, the handler returns status 500
\* with a body whose only field is the static apology, and none of
\* computeEffectiveTemp, getClothingRecommendation, analyzeLaterToday and
\* generateAPLData has been invoked (the locals they would fill are unset).
C12_UpstreamFailureApology ==
  upstreamFailed =>
    /\ response.statusCode = 500
    /\ DOMAIN response.body = {"response"}
    /\ response.body.response =
         "Sorry, I had trouble getting the weather information for that location."
    /\ locals = << >>

\* A forecast reply without current_weather arrived after a successful
\* geocoding and was answered with status 500.
C12_Witness ==
  /\ upstreamFailed
  /\ has(geoData, "results")
  /\ Len(geoData.results) > 0
  /\ has(weatherData, "hourly")
  /\ ~has(weatherData, "current_weather")
  /\ response.statusCode = 500

(***************************************************************************)
(* Concurrent invocations of the handler.  Each invocation has its own     *)
(* event and its own locals (geoData, weatherData and the values of steps  *)
(* 4 to 12 are const bindings of the call); the variables of the handler   *)
(* are here functions of the request.  The awaits are the points where     *)
(* another invocation can run.                                             *)
(***************************************************************************)
\* Number of invocations in flight.
MaxRequests == 2

Requests == 1..MaxRequests

ConcurrentEvents ==
  { [queryStringParameters |-> [zip |-> "10001"]], << >> }

ConcurrentGeoReplies ==
  { [results |-> << >>],
    [results |-> << [latitude |-> 47, longitude |-> -122, name |-> "Seattle"] >>],
    [results |-> << [latitude |-> 40, longitude |-> -74, name |-> "New York"] >>] }

\* Four forecast replies: without current_weather, two complete ones, and
\* one on which step 5 throws.
ConcurrentWeatherReplies ==
  LET cold  == [temperature |-> Num(28, 0), windspeed |-> Num(22, 0), weathercode |-> 73, time |-> Date(2025, 0, 5, 10)]
      warm  == [temperature |-> Num(72, 0), windspeed |-> Num(3, 0), weathercode |-> 0, time |-> Date(2025, 0, 5, 10)]
      times == << Date(2025, 0, 5, 10), Date(2025, 0, 5, 11) >>
      day   == [uv_index_max |-> << Num(7, 0) >>, sunrise |-> << Date(2025, 0, 5, 7) >>, sunset |-> << Date(2025, 0, 5, 17) >>]
  IN  { [hourly |-> hourlyOf(<< >>, << >>)],
        [current_weather |-> cold, hourly |-> hourlyOf(times, << Cold, Storm >>)],
        [current_weather |-> warm, hourly |-> hourlyOf(times, << Calm, Rain >>), daily |-> day],
        [current_weather |-> warm, hourly |-> without(hourlyOf(times, << Calm, Rain >>), "precipitation")] }

InitConcurrent ==
  /\ noCall
  /\ moduleLoaded
  /\ noSkill
  /\ pc = [r \in Requests |-> "fetchGeo"]
  /\ event \in [Requests -> ConcurrentEvents]
  /\ geoData = [r \in Requests |-> << >>]
  /\ weatherData = [r \in Requests |-> << >>]
  /\ locals = [r \in Requests |-> << >>]
  /\ response = [r \in Requests |-> << >>]

\* An exception reaches the catch block of invocation r.
FailOf(r) ==
  /\ pc' = [pc EXCEPT ![r] = "returned"]
  /\ response' = [response EXCEPT ![r] = errorResponse]
  /\ UNCHANGED << event, geoData, weatherData, locals, moduleScope >>

\* await fetch(geoUrl) of invocation r
FetchGeoOf(r) ==
  /\ pc[r] = "fetchGeo"
  /\ \/ /\ pc' = [pc EXCEPT ![r] = "jsonGeo"]
        /\ UNCHANGED << event, geoData, weatherData, locals, response, moduleScope >>
     \/ FailOf(r)
  /\ UNCHANGED << callVars, skillVars >>

\* await geoResponse.json() of invocation r
JsonGeoOf(r) ==
  /\ pc[r] = "jsonGeo"
  /\ \/ FailOf(r)
     \/ \E g \in ConcurrentGeoReplies :
          /\ geoData' = [geoData EXCEPT ![r] = g]
          /\ IF ~has(g, "results") \/ Len(g.results) = 0
               THEN /\ pc' = [pc EXCEPT ![r] = "returned"]
                    /\ response' = [response EXCEPT ![r] = errorResponse]
               ELSE /\ pc' = [pc EXCEPT ![r] = "fetchWeather"]
                    /\ UNCHANGED response
          /\ UNCHANGED << event, weatherData, locals, moduleScope >>
  /\ UNCHANGED << callVars, skillVars >>

\* await fetch(weatherUrl) of invocation r
FetchWeatherOf(r) ==
  /\ pc[r] = "fetchWeather"
  /\ \/ /\ pc' = [pc EXCEPT ![r] = "jsonWeather"]
        /\ UNCHANGED << event, geoData, weatherData, locals, response, moduleScope >>
     \/ FailOf(r)
  /\ UNCHANGED << callVars, skillVars >>

\* Variant of JsonWeatherOf: weatherData is a module-level binding that the
\* invocation assigns before it computes.
JsonWeatherOf_moduleLevel(r) ==
  /\ pc[r] = "jsonWeather"
  /\ \/ FailOf(r)
     \/ \E w \in ConcurrentWeatherReplies :
          /\ weatherData' = [weatherData EXCEPT ![r] = w]
          /\ moduleScope' = [THRESHOLDS |-> THRESHOLDS, weatherData |-> w]
          /\ pc' = [pc EXCEPT ![r] = "returned"]
          /\ IF \/ ~has(w, "current_weather")
                \/ ~has(w, "hourly")
                \/ handlerThrows(w)
               THEN /\ response' = [response EXCEPT ![r] = errorResponse]
                    /\ UNCHANGED locals
               ELSE /\ locals' = [locals EXCEPT ![r] = handlerLocals(w)]
                    /\ response' = [response EXCEPT ![r] = successResponse(handlerLocals(w), At(geoData[r].results, 0).name, w)]
          /\ UNCHANGED << event, geoData >>
  /\ UNCHANGED << callVars, skillVars >>

\* await weatherResponse.json() of invocation r and the code after it up to
\* the return
JsonWeatherOf(r) ==
  /\ pc[r] = "jsonWeather"
  /\ \/ FailOf(r)
     \/ \E w \in ConcurrentWeatherReplies :
          /\ weatherData' = [weatherData EXCEPT ![r] = w]
          /\ pc' = [pc EXCEPT ![r] = "returned"]
          /\ IF \/ ~has(w, "current_weather")
                \/ ~has(w, "hourly")
                \/ handlerThrows(w)
               THEN /\ response' = [response EXCEPT ![r] = errorResponse]
                    /\ UNCHANGED locals
               ELSE /\ locals' = [locals EXCEPT ![r] = handlerLocals(w)]
                    /\ response' = [response EXCEPT ![r] = successResponse(handlerLocals(w), At(geoData[r].results, 0).name, w)]
          /\ UNCHANGED << event, geoData, moduleScope >>
  /\ UNCHANGED << callVars, skillVars >>

NextConcurrent ==
  \E r \in Requests :
    FetchGeoOf(r) \/ JsonGeoOf(r) \/ FetchWeatherOf(r) \/ JsonWeatherOf(r)

SpecConcurrent == InitConcurrent /\ [][NextConcurrent]_vars

\* What the handler returns when it runs alone with geocoding reply g and
\* forecast reply w (<< >> stands for a rejected fetch or parse).
aloneResult(g, w) ==
  IF \/ ~has(g, "results")
     \/ Len(g.results) = 0
     \/ ~has(w, "current_weather")
     \/ ~has(w, "hourly")
     \/ handlerThrows(w)
    THEN errorResponse
    ELSE successResponse(handlerLocals(w), At(g.results, 0).name, w)

resultsAsAlone ==
  \A r \in Requests :
    pc[r] = "returned" => response[r] = aloneResult(geoData[r], weatherData[r])

\* A step writes no module-level binding and leaves every forecast dataset
\* that has arrived as it is.
noSharedWrite ==
  /\ moduleScope' = moduleScope
  /\ \A r \in Requests :
       weatherData[r] # << >> => weatherData'[r] = weatherData[r]

\* C13: when invocations for independent requests interleave at their
\* awaits, each returns what it returns alone on its own replies; no step
\* of any invocation writes module-level state, and a forecast dataset is
\* not modified once it has arrived.
C13_ConcurrentIsolation ==
  /\ []resultsAsAlone
  /\ [][noSharedWrite]_vars

\* Two invocations that were suspended together have both returned status
\* 200, for different places and different forecasts.
C13_Witness ==
  /\ pc[1] = "returned" /\ pc[2] = "returned"
  /\ response[1].statusCode = 200 /\ response[2].statusCode = 200
  /\ weatherData[1] # weatherData[2]
  /\ geoData[1] # geoData[2]
  /\ response[1].body.response # response[2].body.response

(***************************************************************************)
(* Direct runs of the hour locator (handler step 5) on non-decreasing      *)
(* hourly series                                                           *)
(***************************************************************************)
\* Longest series given to the locator.
MaxLocatorHours == 4

\* Timestamps in ascending order: the same day and month a year earlier,
\* the evening before, four hours of 5 January 2025, the next midnight and
\* the same day of the next month.
LocatorStamps ==
  << Date(2024, 0, 5, 9), Date(2025, 0, 4, 23), Date(2025, 0, 5, 8),
     Date(2025, 0, 5, 10), Date(2025, 0, 5, 11), Date(2025, 0, 6, 0),
     Date(2025, 1, 5, 9) >>

LocatorNows ==
  { Date(2023, 11, 31, 12), Date(2025, 0, 5, 7), Date(2025, 0, 5, 9),
    Date(2025, 0, 5, 10) }

\* Non-decreasing series of n timestamps (repetitions allowed).
NonDecreasingSeries(n) ==
  { [j \in 1..n |-> LocatorStamps[f[j]]] :
      f \in { g \in [1..n -> 1..Len(LocatorStamps)] :
                \A j \in 1..(n - 1) : g[j] <= g[j + 1] } }

InitLocate ==
  /\ noHandler
  /\ moduleLoaded
  /\ noSkill
  /\ fn = "locateHour"
  /\ returned = FALSE
  /\ ret = << >>
  /\ \E n \in 0..MaxLocatorHours :
       \E ts \in NonDecreasingSeries(n), now \in LocatorNows :
         args = [hourlyTimes |-> ts, currentTimeObj |-> now]

CallLocateHour ==
  /\ fn = "locateHour"
  /\ ~returned
  /\ returned' = TRUE
  /\ ret' = locateHour(args.hourlyTimes, args.currentTimeObj)
  /\ UNCHANGED << fn, args, handlerVars, moduleScope, skillVars >>

NextLocate == CallLocateHour

SpecLocate == InitLocate /\ [][NextLocate]_vars

locatorReturned == fn = "locateHour" /\ returned

\* Indexes of the entries on the calendar day of the current time whose
\* hour is not after the current hour.
sameDayUpToNow ==
  { i \in 0..(Len(args.hourlyTimes) - 1) :
      /\ At(args.hourlyTimes, i).year = args.currentTimeObj.year
      /\ At(args.hourlyTimes, i).month = args.currentTimeObj.month
      /\ At(args.hourlyTimes, i).date = args.currentTimeObj.date
      /\ At(args.hourlyTimes, i).hours <= args.currentTimeObj.hours }

\* Indexes of the entries whose timestamp is not after the current time.
notAfterNow ==
  { i \in 0..(Len(args.hourlyTimes) - 1) :
      dateLE(At(args.hourlyTimes, i), args.currentTimeObj) }

lastOf(S) == CHOOSE i \in S : \A j \in S : j <= i

\* C14: on a non-decreasing series the locator returns, among the entries of
\* the current calendar day (year, month, day) whose hour is at most the
\* current hour, an entry of the current hour when there is one, and
\* otherwise the last of them.
C14_ExactHourElseLatest ==
  (locatorReturned /\ sameDayUpToNow # {}) =>
    IF \E i \in sameDayUpToNow :
         At(args.hourlyTimes, i).hours = args.currentTimeObj.hours
      THEN /\ ret \in sameDayUpToNow
           /\ At(args.hourlyTimes, ret).hours = args.currentTimeObj.hours
      ELSE ret = lastOf(sameDayUpToNow)

\* An exact hour match was returned although an earlier same-day entry and
\* a later entry of the series exist.
C14_Witness ==
  /\ locatorReturned
  /\ ret \in sameDayUpToNow
  /\ At(args.hourlyTimes, ret).hours = args.currentTimeObj.hours
  /\ \E i \in sameDayUpToNow : i < ret
  /\ ret < Len(args.hourlyTimes) - 1

\* C16: when no entry of the current calendar day has an hour at or before
\* the current hour, the locator returns the last entry of the series whose
\* timestamp is at or before the current time; it returns -1 exactly when
\* the series is empty or every entry is after the current time.
C16_FallbackLastBeforeNow ==
  locatorReturned =>
    /\ (sameDayUpToNow = {} /\ notAfterNow # {}) => ret = lastOf(notAfterNow)
    /\ ret = -1 <=> notAfterNow = {}

\* The fallback returned an entry of an earlier day that is not the last
\* entry of the series.
C16_Witness ==
  /\ locatorReturned
  /\ sameDayUpToNow = {}
  /\ ret >= 0
  /\ ret = lastOf(notAfterNow)
  /\ ret < Len(args.hourlyTimes) - 1

(***************************************************************************)
(* The skill: SkillIntentHandler.handle.  Its two awaits are the steps of  *)
(* a run: client.getCountryAndPostalCode(deviceId) and                     *)
(* callHowManyLayersAPI(zipCode).  A response is held as what the response *)
(* builder was given: the speech, the card and the directives (of a        *)
(* directive, the document is left out).                                   *)
(***************************************************************************)
APL == "Alexa.Presentation.APL"

\* requestEnvelope.context.System.user of a request
SkillUsers ==
  { << >>,
    [permissions |-> << >>],
    [permissions |-> [consentToken |-> ""]],
    [permissions |-> [consentToken |-> "Atza|one"]],
    [permissions |-> [consentToken |-> "Atza|two"]] }

\* requestEnvelope.context.System.device of a request
SkillDevices ==
  { [deviceId |-> d, supportedInterfaces |-> i] :
      d \in {"device-1", "device-2"},
      i \in { << >>, [k \in {APL} |-> << >>] } }

HandlerInputs ==
  { [requestEnvelope |-> [context |-> [System |-> [user |-> u, device |-> d]]]] :
      u \in SkillUsers, d \in SkillDevices }

\* Replies of the device address service.
AddressReplies ==
  { [countryCode |-> "US"],
    [countryCode |-> "US", postalCode |-> "98102"],
    [countryCode |-> "US", postalCode |-> "10001"] }

\* Parsed replies of the weather service API: bodies the weather handler
\* returns on success and on failure, and an empty object.
ApiReplies ==
  { successResponse(handlerLocals(w), "Seattle", w).body :
      w \in { v \in ConcurrentWeatherReplies :
                has(v, "current_weather") /\ ~handlerThrows(v) } }
  \cup { errorResponse.body, << >> }

\* (permissions && permissions.consentToken) || null, as a sequence of at
\* most one token
consentTokenOf(requestEnvelope) ==
  LET user == requestEnvelope.context.System.user
  IN  IF /\ has(user, "permissions")
         /\ has(user.permissions, "consentToken")
         /\ user.permissions.consentToken # ""
        THEN << user.permissions.consentToken >>
        ELSE << >>

\* What the response builder holds at getResponse().
speak(text) == [outputSpeech |-> text, card |-> << >>, directives |-> << >>]

withAskForPermissionsConsentCard(r, permissions) ==
  [r EXCEPT !.card = [type |-> "AskForPermissionsConsent", permissions |-> permissions]]

addDirective(r, directive) == [r EXCEPT !.directives = Append(@, directive)]

\* The response of the code after callHowManyLayersAPI has resolved with
\* json, or the catch block's response when that code throws: on a device
\* with the APL interface responseData.apl.background is read, a TypeError
\* when json has no apl object.
respondWith(json, zipCode, requestEnvelope) ==
  LET spokenMessage ==
        IF has(json, "response") /\ json.response # ""
          THEN json.response
          ELSE "I'm sorry, something went wrong."
      orElse(key, empty, default) ==
        IF has(json, key) /\ json[key] # empty THEN json[key] ELSE default
  IN  IF has(requestEnvelope.context.System.device.supportedInterfaces, APL)
        THEN IF ~has(json, "apl")
               THEN speak("I'm having trouble reaching the fashion service right now.")
               ELSE LET weatherBackground ==
                          IF has(json.apl, "background") /\ json.apl.background # ""
                            THEN json.apl.background
                            ELSE "sunny"
                    IN  addDirective(speak(spokenMessage),
                          [ type |-> "Alexa.Presentation.APL.RenderDocument",
                            datasources |->
                              [ weatherData |->
                                  [ weatherBackground |-> weatherBackground,
                                    timeOfDay     |-> json.apl.timeOfDay,
                                    clothingItems |-> json.apl.clothingRecommendations,
                                    temperature   |-> orElse("temperature", 0, ""),
                                    condition     |-> orElse("weatherDescription", "", ""),
                                    location      |-> orElse("locationName", "", zipCode),
                                    spokenText    |-> spokenMessage ] ] ])
        ELSE speak(spokenMessage)

InitSkill ==
  /\ noHandler
  /\ noCall
  /\ moduleLoaded
  /\ skillPc = "handle"
  /\ handlerInput \in HandlerInputs
  /\ serviceCalls = << >>
  /\ address = << >>
  /\ responseData = << >>
  /\ skillResponse = << >>

\* The catch block of handle.
SkillFail ==
  /\ skillPc' = "returned"
  /\ skillResponse' = speak("I'm having trouble reaching the fashion service right now.")
  /\ UNCHANGED << handlerInput, serviceCalls, address, responseData >>

\* Variant of SkillHandle: the device address service is asked without a
\* look at the consent token.
SkillHandle_noConsentCheck ==
  /\ skillPc = "handle"
  /\ serviceCalls' = Append(serviceCalls,
        [ service |-> "deviceAddress", operation |-> "getCountryAndPostalCode",
          deviceId |-> handlerInput.requestEnvelope.context.System.device.deviceId ])
  /\ skillPc' = "getCountryAndPostalCode"
  /\ UNCHANGED << handlerInput, address, responseData, skillResponse >>
  /\ UNCHANGED << handlerVars, callVars, moduleScope >>

\* handle up to its first await: without a consent token the permissions
\* response is returned; with one the device address service is called.
SkillHandle ==
  /\ skillPc = "handle"
  /\ IF consentTokenOf(handlerInput.requestEnvelope) = << >>
       THEN /\ skillResponse' =
                 withAskForPermissionsConsentCard(
                   speak("Please enable location permissions in the Alexa app."),
                   << "read::alexa:device:all:address:country_and_postal_code" >>)
            /\ skillPc' = "returned"
            /\ UNCHANGED << handlerInput, serviceCalls, address, responseData >>
       ELSE /\ serviceCalls' = Append(serviceCalls,
                 [ service |-> "deviceAddress", operation |-> "getCountryAndPostalCode",
                   deviceId |-> handlerInput.requestEnvelope.context.System.device.deviceId ])
            /\ skillPc' = "getCountryAndPostalCode"
            /\ UNCHANGED << handlerInput, address, responseData, skillResponse >>
  /\ UNCHANGED << handlerVars, callVars, moduleScope >>

\* await client.getCountryAndPostalCode(deviceId): rejects, or resolves
\* with an address; without a postal code the handler returns, with one it
\* calls the weather service API
AddressResolved ==
  /\ skillPc = "getCountryAndPostalCode"
  /\ \/ SkillFail
     \/ \E a \in AddressReplies :
          /\ address' = a
          /\ IF ~has(a, "postalCode") \/ a.postalCode = ""
               THEN /\ skillResponse' = speak("I couldn't get your zip code.")
                    /\ skillPc' = "returned"
                    /\ UNCHANGED serviceCalls
               ELSE /\ serviceCalls' = Append(serviceCalls,
                         [ service |-> "weatherApi", operation |-> "GET",
                           zip |-> a.postalCode ])
                    /\ skillPc' = "callHowManyLayersAPI"
                    /\ UNCHANGED skillResponse
          /\ UNCHANGED << handlerInput, responseData >>
  /\ UNCHANGED << handlerVars, callVars, moduleScope >>

\* await callHowManyLayersAPI(zipCode): rejects (request error or a body
\* that is not JSON), or resolves with the parsed body
ApiResolved ==
  /\ skillPc = "callHowManyLayersAPI"
  /\ \/ SkillFail
     \/ \E json \in ApiReplies :
          /\ responseData' = json
          /\ skillResponse' = respondWith(json, address.postalCode, handlerInput.requestEnvelope)
          /\ skillPc' = "returned"
          /\ UNCHANGED << handlerInput, serviceCalls, address >>
  /\ UNCHANGED << handlerVars, callVars, moduleScope >>

NextSkill == SkillHandle \/ AddressResolved \/ ApiResolved

SpecSkill == InitSkill /\ [][NextSkill]_vars

\* C15: a request without a consent token is answered with the "Please
\* enable location permissions" speech and the permissions consent card,
\* and for such a request neither the device address service nor the
\* weather service API is ever called.
C15_NoConsentNoServiceCall ==
  consentTokenOf(handlerInput.requestEnvelope) = << >> =>
    /\ serviceCalls = << >>
    /\ skillPc \in {"handle", "returned"}
    /\ skillPc = "returned" =>
         /\ startsWith(skillResponse.outputSpeech, "Please enable location permissions")
         /\ skillResponse.card =
              [ type |-> "AskForPermissionsConsent",
                permissions |-> << "read::alexa:device:all:address:country_and_postal_code" >> ]
         /\ skillResponse.directives = << >>

\* A request whose permissions object has no consent token has been
\* answered.
C15_Witness ==
  /\ skillPc = "returned"
  /\ has(handlerInput.requestEnvelope.context.System.user, "permissions")
  /\ consentTokenOf(handlerInput.requestEnvelope) = << >>
  /\ skillResponse.card # << >>
  /\ serviceCalls = << >>

(***************************************************************************)
(* The walk of analyzeLaterToday                                           *)
(***************************************************************************)
\* C17: analyzeLaterToday evaluates only entries after the located index
\* and stops at the first entry whose calendar day (year, month and day)
\* differs from the located hour's: every statement it produces is for an
\* entry after the located index such that this entry and all entries
\* between are on the located hour's calendar day.
C17_StatementsOnLocatedDayOnly ==
  scanReturned =>
    \A k \in 1..Len(ret.fired) :
      /\ ret.fired[k].at > args.startIndex
      /\ \A j \in (args.startIndex + 1)..ret.fired[k].at :
           sameCalendarDay(j, args.startIndex)

\* The hours the scan walks: the entries after the located index up to,
\* and without, the first one the loop's day test rejects.
walkedHours ==
  { i \in indexesAfter(args.startIndex) :
      \A j \in (args.startIndex + 1)..i :
        At(args.weatherData.hourly.time, j).date
          = At(args.weatherData.hourly.time, args.startIndex).date }

\* The effective temperature of entry i.
hourEff(i) ==
  computeEffectiveTemp(At(args.weatherData.hourly.temperature_2m, i),
                       At(args.weatherData.hourly.windspeed_10m, i),
                       At(args.weatherData.hourly.relativehumidity_2m, i))

\* Distance between the category rank of entry i and the rank of the
\* effective temperature given to the scan.
rankDistance(i) == MathAbs(intervalRank(hourEff(i)) - intervalRank(args.nowEff))

swingHours == { i \in walkedHours : rankDistance(i) >= 2 }

firstOf(S) == CHOOSE i \in S : \A j \in S : i <= j

\* C18: the temp_swing statement fires at the first walked hour whose
\* category rank is 2 or more away from the rank of the effective
\* temperature given to the scan, never at an hour at distance 0 or 1, and
\* the distance is always taken from the current category, not from the
\* category of a walked hour.
C18_TempSwingAtFirstDistantHour ==
  scanReturned =>
    IF swingHours = {}
      THEN ofKind(ret.fired, "temp_swing") = {}
      ELSE /\ Cardinality(ofKind(ret.fired, "temp_swing")) = 1
           /\ \A k \in ofKind(ret.fired, "temp_swing") :
                ret.fired[k].at = firstOf(swingHours)

\* The first walked hour is one rank away from the current category and
\* two ranks away from the next walked hour, which is one rank away from
\* the current category too; a later hour fires the temp_swing statement.
C18_Witness ==
  /\ scanReturned
  /\ LET si == args.startIndex
     IN  /\ {si + 1, si + 2, si + 3} \subseteq walkedHours
         /\ rankDistance(si + 1) = 1
         /\ rankDistance(si + 2) = 1
         /\ MathAbs(intervalRank(hourEff(si + 1)) - intervalRank(hourEff(si + 2))) = 2
         /\ \E k \in ofKind(ret.fired, "temp_swing") : ret.fired[k].at = si + 3

\* Entry i has wind above 25 mph.
windyHour(i) == At(args.weatherData.hourly.windspeed_10m, i) > Num(25, 0)

\* C19: a wind statement is produced only for a walked hour with wind
\* above 25 mph whose index is at most 8 past the located index; an hour
\* 9 or more slots after the located index never gets one, even on the
\* located hour's day.
C19_WindWithinEightHours ==
  scanReturned =>
    \A k \in ofKind(ret.fired, "wind") :
      /\ ret.fired[k].at \in walkedHours
      /\ windyHour(ret.fired[k].at)
      /\ ret.fired[k].at <= args.startIndex + 8

\* The hour 9 slots after the located index is on the located hour's day
\* and has wind above 25 mph, the hour 8 slots after it does not, and no
\* wind statement was produced.
C19_Witness ==
  /\ scanReturned
  /\ args.startIndex + 9 \in walkedHours
  /\ sameCalendarDay(args.startIndex + 9, args.startIndex)
  /\ windyHour(args.startIndex + 9)
  /\ ~windyHour(args.startIndex + 8)
  /\ ofKind(ret.fired, "wind") = {}

\* Entry i satisfies one of the three triggers.
triggeredHour(i) ==
  \/ rankDistance(i) >= 2
  \/ rainyHour(i)
  \/ windyHour(i) /\ i <= args.startIndex + 8

\* The walked hours that are on the located hour's calendar day.
walkedSameDayHours ==
  { i \in walkedHours : sameCalendarDay(i, args.startIndex) }

\* C20: analyzeLaterToday returns the empty string exactly when no walked
\* hour of the located hour's day satisfies one of the three triggers (rank
\* distance >= 2, precipitation > 0.25 in, wind > 25 mph at most 8 slots
\* after the located index); otherwise it returns the lead-in sentence
\* "Later today, watch for changes." followed by the statements.
C20_EmptyExactlyWhenNothingTriggers ==
  scanReturned =>
    /\ ret.summary = "" <=> \A i \in walkedSameDayHours : ~triggeredHour(i)
    /\ ret.summary # "" =>
         /\ startsWith(ret.summary, "Later today, watch for changes.")
         /\ Len(ret.statements) > 0
         /\ \A k \in 1..Len(ret.statements) :
              includes(ret.summary, " " \o ret.statements[k].text)

(***************************************************************************)
(* The humidity adjustment of computeEffectiveTemp                         *)
(***************************************************************************)
effectiveTempReturned == fn = "computeEffectiveTemp" /\ returned

\* The part of the result that is not the raw temperature less the wind
\* adjustment.
humidityPart == ret - (args.tempF - windChillAdjustment(args.windMph))

\* C21: computeEffectiveTemp decides the humidity adjustment on the raw
\* temperature, whatever the wind adjustment is: +8 when the raw temperature
\* is above 70 and the humidity above 70, else -3 when the raw temperature
\* is below 50 and the humidity below 30, else 0; both adjustments can apply
\* to one input and their sum is returned unclamped.
C21_HumidityOnRawTemperature ==
  effectiveTempReturned =>
    /\ humidityPart =
         (IF args.tempF > Num(70, 0) /\ args.humidity > Num(70, 0)
            THEN Num(8, 0)
          ELSE IF args.tempF < Num(50, 0) /\ args.humidity < Num(30, 0)
            THEN -Num(3, 0)
          ELSE 0)
    /\ (args.tempF = -Num(10, 0) /\ args.windMph = Num(45, 0)
          /\ args.humidity = Num(20, 0)) => ret = -Num(31, 0)
    /\ (args.tempF = Num(95, 0) /\ args.windMph = Num(0, 0)
          /\ args.humidity = Num(80, 0)) => ret = Num(103, 0)

\* Both adjustments applied to one input: the wind adjustment took the
\* temperature to 70 or less and the +8 was added all the same.
C21_Witness ==
  /\ effectiveTempReturned
  /\ args.tempF > Num(70, 0)
  /\ args.tempF - windChillAdjustment(args.windMph) <= Num(70, 0)
  /\ args.humidity > Num(70, 0)
  /\ ret = args.tempF - windChillAdjustment(args.windMph) + Num(8, 0)

(***************************************************************************)
(* The background and the clothing list of generateAPLData                 *)
(***************************************************************************)
\* The background rules in their order: the keywords as the code spells
\* them, and the background of the rule.
BackgroundRules ==
  << [keywords |-> {"Rain", "Drizzle"},   background |-> "rainy"],
     [keywords |-> {"Snow"},              background |-> "snowy"],
     [keywords |-> {"Cloud", "Overcast"}, background |-> "overcast"],
     [keywords |-> {"Fog"},               background |-> "foggy"],
     [keywords |-> {"Thunder"},           background |-> "stormy"] >>

\* The rules one of whose keywords occurs in the condition text.
matchingRules ==
  { k \in 1..Len(BackgroundRules) :
      \E key \in BackgroundRules[k].keywords : includes(args.weatherDesc, key) }

\* C22: the background is that of the first matching rule in the order
\* rain/drizzle -> rainy, snow -> snowy, cloud/overcast -> overcast,
\* fog -> foggy, thunder -> stormy; without a match it is "night" when the
\* daytime flag is false and "sunny" otherwise, so "night" is returned only
\* when no keyword matches and it is not daytime; timeOfDay is "day" or
\* "night" by the daytime flag alone.
C22_BackgroundByFirstRule ==
  payloadReturned =>
    /\ matchingRules # {} =>
         ret.background = BackgroundRules[firstOf(matchingRules)].background
    /\ matchingRules = {} =>
         ret.background = (IF args.isDaytime THEN "sunny" ELSE "night")
    /\ ret.background = "night" => (matchingRules = {} /\ ~args.isDaytime)
    /\ ret.timeOfDay = (IF args.isDaytime THEN "day" ELSE "night")

\* At night a text with the keywords of two rules, the later rule's keyword
\* first in the text, got the background of the earlier rule.
C22_Witness ==
  /\ payloadReturned
  /\ ~args.isDaytime
  /\ Cardinality(matchingRules) = 2
  /\ args.weatherDesc = "Thunder and Rain"
  /\ ret.background = "rainy"
  /\ ret.timeOfDay = "night"

(***************************************************************************)
(* The optional clauses of getClothingRecommendation                       *)
(***************************************************************************)
\* The advice contains the clause.
says(clause) == includes(ret, clause)

\* C23: the advice has the waterproof-layer clause exactly when
\* precipitation > 0.25 in, the light-rain-jacket clause exactly when
\* 0 < precipitation <= 0.25, neither at precipitation 0; no clause occurs
\* twice and the two never occur together.
C23_OnePrecipitationClause ==
  adviceReturned =>
    /\ says(" Bring a waterproof layer.") <=> args.precip > Num(0, 25)
    /\ says(" Consider a light rain jacket.")
          <=> (args.precip > Num(0, 0) /\ args.precip <= Num(0, 25))
    /\ ~(says(" Bring a waterproof layer.")
           /\ says(" Consider a light rain jacket."))
    /\ occurrences(ret, " Bring a waterproof layer.") <= 1
    /\ occurrences(ret, " Consider a light rain jacket.") <= 1
    /\ args.precip = Num(0, 0) =>
          (~says(" Bring a waterproof layer.")
             /\ ~says(" Consider a light rain jacket."))

\* At precipitation exactly 0.25 in the advice has the light-rain-jacket
\* clause and not the waterproof-layer clause.
C23_Witness ==
  /\ adviceReturned
  /\ args.precip = Num(0, 25)
  /\ says(" Consider a light rain jacket.")
  /\ ~says(" Bring a waterproof layer.")

\* The condition-text clauses in their order, each with its keyword in
\* lower case and as the code spells it.
ConditionRules ==
  << [ anyCase |-> "snow", spelled |-> "Snow",
       clause |-> " Waterproof boots are recommended." ],
     [ anyCase |-> "thunderstorm", spelled |-> "Thunderstorm",
       clause |-> " Stay safe and avoid open areas." ],
     [ anyCase |-> "fog", spelled |-> "Fog",
       clause |-> " Wear bright clothing for visibility." ] >>

\* The rules whose keyword occurs in the condition text in any letter case,
\* and those whose keyword occurs as the code spells it.
matchedAnyCase ==
  { k \in 1..Len(ConditionRules) :
      includes(toLowerCase(args.weatherDesc), ConditionRules[k].anyCase) }
matchedSpelled ==
  { k \in 1..Len(ConditionRules) :
      includes(args.weatherDesc, ConditionRules[k].spelled) }

C25_WindproofCoat ==
  adviceReturned =>
    /\ says(" A windproof coat helps.")
          <=> (args.windSpeed > Num(10, 0) /\ args.effTemp < Num(50, 0))
    /\ (args.windSpeed = Num(10, 0) \/ args.effTemp = Num(50, 0))
          => ~says(" A windproof coat helps.")

\* Just past both thresholds the advice has the windproof-coat clause.
C25_Witness ==
  /\ adviceReturned
  /\ args.windSpeed = Num(10, 1)
  /\ args.effTemp = Num(49, 99)
  /\ says(" A windproof coat helps.")

\* C26: in daytime the advice has the high-UV clause exactly when UV >= 6
\* and the moderate-UV clause exactly when 3 <= UV < 6, none below 3; when
\* the daytime flag is false it has no UV clause for any UV value; the two
\* UV clauses never occur together.
C26_UvClauseDaytimeOnly ==
  adviceReturned =>
    /\ args.isDaytime =>
         /\ says(" UV is high, wear sunscreen and a hat.")
               <=> args.uvIndex >= Num(6, 0)
         /\ says(" Moderate UV, consider sun protection.")
               <=> (args.uvIndex >= Num(3, 0) /\ args.uvIndex < Num(6, 0))
    /\ ~args.isDaytime =>
         /\ ~says(" UV is high, wear sunscreen and a hat.")
         /\ ~says(" Moderate UV, consider sun protection.")
    /\ ~(says(" UV is high, wear sunscreen and a hat.")
           /\ says(" Moderate UV, consider sun protection."))

\* In daytime at UV 5.99 the advice has the moderate-UV clause and not the
\* high-UV clause.
C26_Witness ==
  /\ adviceReturned
  /\ args.isDaytime
  /\ args.uvIndex = Num(5, 99)
  /\ says(" Moderate UV, consider sun protection.")
  /\ ~says(" UV is high, wear sunscreen and a hat.")

(***************************************************************************)
(* The clothing list of generateAPLData                                    *)
(***************************************************************************)
\* The names of the clothing list, in its order.
listedNames ==
  [ k \in 1..Len(ret.clothingRecommendations) |->
      ret.clothingRecommendations[k].item ]

\* C27 as stated: the clothing list has the wind-protection item exactly
\* when windSpeed > 15 mph; at 15 mph or less (6 or 10 mph, say) it has
\* none.
C27_WindProtectionAbove15 ==
  payloadReturned =>
    ((\E k \in 1..Len(listedNames) : listedNames[k] = "Wind Protection")
       <=> args.windSpeed > Num(15, 0))

\* The names of the groups, each decided from the arguments.
temperatureGroup ==
  LET rank == intervalRank(args.effTemp)
  IN  IF rank <= 2 THEN << "Heavy Coat", "Winter Hat", "Gloves", "Long Pants" >>
      ELSE IF rank = 3 THEN << "Light Jacket", "Long Pants" >>
      ELSE IF rank = 4 THEN << "Long Sleeve", "Long Pants" >>
      ELSE IF rank <= 6 THEN << "T-Shirt", "Shorts" >>
      ELSE << "Light Clothes", "Shorts", "Hydration" >>
precipitationGroup ==
  IF args.precip > Num(0, 0) THEN << "Umbrella", "Rain Jacket" >> ELSE << >>
snowGroup ==
  IF includes(args.weatherDesc, "Snow") THEN << "Snow Boots" >> ELSE << >>
uvGroup ==
  (IF args.isDaytime /\ args.uvIndex >= Num(3, 0)
     THEN << "Sunglasses" >> ELSE << >>)
    \o (IF args.isDaytime /\ args.uvIndex >= Num(6, 0)
          THEN << "Sunscreen", "Hat" >> ELSE << >>)

\* C28: the clothing list is the temperature-category group, then the
\* precipitation group (umbrella, rain jacket when precipitation > 0), then
\* the snow group (snow boots), then the UV group (daytime only: sunglasses
\* when UV >= 3, then sunscreen and hat when UV >= 6), then the wind group
\* (nothing or the wind-protection item); nothing is removed, reordered or
\* deduplicated, so the length of the list is the sum of the lengths of the
\* groups and a cold, rainy call lists the coat emoji twice.
C28_ClothingListConcatenation ==
  payloadReturned =>
    /\ \E windGroup \in { << >>, << "Wind Protection" >> } :
         listedNames = temperatureGroup \o precipitationGroup \o snowGroup
                         \o uvGroup \o windGroup
    /\ (intervalRank(args.effTemp) <= 2 /\ args.precip > Num(0, 0)) =>
         Cardinality({ k \in 1..Len(ret.clothingRecommendations) :
                         ret.clothingRecommendations[k].emoji = "U+1F9E5" }) = 2

\* All five groups contributed: four temperature items, umbrella and rain
\* jacket, snow boots, three UV items and the wind item, in that order.
C28_Witness ==
  /\ payloadReturned
  /\ listedNames = << "Heavy Coat", "Winter Hat", "Gloves", "Long Pants",
                      "Umbrella", "Rain Jacket", "Snow Boots", "Sunglasses",
                      "Sunscreen", "Hat", "Wind Protection" >>

(***************************************************************************)
(* The cap of analyzeLaterToday when all three triggers fire               *)
(***************************************************************************)
\* Position of a trigger kind in the checks of one hour.
kindRank(kind) ==
  CASE kind = "temp_swing"    -> 1
    [] kind = "precipitation" -> 2
    [] kind = "wind"          -> 3

\* Statement a fired before statement b: at an earlier hour, or at the same
\* hour with its kind checked first.
firedBefore(a, b) ==
  \/ a.at < b.at
  \/ a.at = b.at /\ kindRank(a.kind) < kindRank(b.kind)

allThreeFired ==
  /\ scanReturned
  /\ \A kind \in TriggerKinds : ofKind(ret.fired, kind) # {}

\* The statements that fired and are not in the summary.
droppedStatements ==
  { ret.fired[k] : k \in 1..Len(ret.fired) }
    \ { ret.statements[k] : k \in 1..Len(ret.statements) }

\* C29: when all three trigger kinds fire in one scan, the summary keeps
\* two statements, both fired before the one dropped, in the order they
\* fired, and the text of the dropped one is not in the summary; when the
\* three fire at the same hour the summary keeps temp_swing then
\* precipitation and drops wind.
C29_CapKeepsFirstTwoFired ==
  allThreeFired =>
    /\ Len(ret.statements) = 2
    /\ Cardinality(droppedStatements) = 1
    /\ firedBefore(ret.statements[1], ret.statements[2])
    /\ \A d \in droppedStatements :
         /\ firedBefore(ret.statements[1], d)
         /\ firedBefore(ret.statements[2], d)
         /\ occurrences(ret.summary, opener(d.kind)) = 0
    /\ indexOf(ret.summary, ret.statements[1].text)
         < indexOf(ret.summary, ret.statements[2].text)
    /\ (\A k \in 1..Len(ret.fired) : ret.fired[k].at = ret.fired[1].at) =>
         /\ ret.statements[1].kind = "temp_swing"
         /\ ret.statements[2].kind = "precipitation"
         /\ \A d \in droppedStatements : d.kind = "wind"

\* The three kinds fired at one hour and the wind statement was dropped.
C29_Witness ==
  /\ allThreeFired
  /\ \A k \in 1..Len(ret.fired) : ret.fired[k].at = ret.fired[1].at
  /\ Len(ret.statements) = 2
  /\ \A d \in droppedStatements : d.kind = "wind"
  /\ occurrences(ret.summary, opener("wind")) = 0

(***************************************************************************)
(* The speech of SkillIntentHandler after the weather service has replied  *)
(***************************************************************************)
\* C30 as stated: whenever the weather service reply parsed as JSON and has
\* a non-empty response field, the speech of the skill's response is
\* exactly that field, on devices with the APL interface and on devices
\* without it, the weather service's error body (response only) included.
C30_SpeaksResponseField ==
  (/\ skillPc = "returned"
   /\ has(responseData, "response")
   /\ responseData.response # "")
    => skillResponse.outputSpeech = responseData.response

====
